---- MODULE Spec2Model ----
(***************************************************************************)
(* A model of the Bancho server (osuAisuru/bancho): the session registry,  *)
(* the login flow, spectating and the multiplayer match state machine.     *)
(*                                                                         *)
(* Objects (User, Channel, Match) are modelled as entries of the functions *)
(* sess, chan and mtch, addressed by an object id; Null is Python's None.  *)
(* The three registries of app/state/sessions.py are users, channels and   *)
(* matches.  A handler is sequential code that may raise in the middle, so *)
(* it is written as a chain of operators over a state record st; the flag  *)
(* st.raised marks an exception that has escaped: every later step of the  *)
(* request is skipped and the mutations made before it are kept.           *)
(***************************************************************************)
EXTENDS Integers, Sequences, FiniteSets, TLC

----------------------------------------------------------------------------
(* Bounds of the model *)

NumPlayers == 2
MaxSess == 4
NumSlots == 2
MaxMatches == 1
MaxMatchObjs == 2
MaxQueue == 0
TickStep == 10
MaxTicks == 2
NumTasks == 2

----------------------------------------------------------------------------
(* Program constants *)

OPEN == 1
LOCKED == 2
NOT_READY == 4
READY == 8
NO_MAP == 16
PLAYING == 32
COMPLETE == 64
QUIT == 128
HAS_USER == NOT_READY + READY + NO_MAP + PLAYING + COMPLETE

BotId == 1
IdleLimit == 10
LogoutGrace == 1

Null == 0

RECURSIVE BitAnd(_, _)
BitAnd(a, b) ==
    IF a = 0 \/ b = 0 THEN 0
    ELSE (IF a % 2 = 1 /\ b % 2 = 1 THEN 1 ELSE 0) + 2 * BitAnd(a \div 2, b \div 2)

----------------------------------------------------------------------------
(* Identifiers *)

BotSess == 1
SessIds == 1..MaxSess
PlayerAccts == 2..(NumPlayers + 1)
Accts == {BotId} \cup PlayerAccts
OfflineId == NumPlayers + 2
MatchObjs == 1..MaxMatchObjs
MatchIdx == 0..(MaxMatches - 1)
SlotIdx == 0..(NumSlots - 1)
Tasks == 1..NumTasks

\* a channel object: the lobby, the #spec_<id> channel of an account, or the
\* #multi channel made for a match object
LobbyChan == <<"lobby", 0>>
SpecChan(a) == <<"spec", a>>
MultiChan(k) == <<"multi", k>>
ChanIds == {LobbyChan} \cup {SpecChan(a) : a \in Accts} \cup {MultiChan(k) : k \in MatchObjs}
NoChan == <<"none", 0>>

\* real_name values (routing keys)
LobbyName == <<"#lobby", 0>>
SpecName(a) == <<"#spec_", a>>
MultiName(i) == <<"#multi_", i>>

Range(s) == {s[i] : i \in 1..Len(s)}

RECURSIVE RemoveFirst(_, _)
RemoveFirst(s, x) ==
    IF s = <<>> THEN <<>>
    ELSE IF Head(s) = x THEN Tail(s)
    ELSE <<Head(s)>> \o RemoveFirst(Tail(s), x)

----------------------------------------------------------------------------
(* State *)

VARIABLES
    users,      \* sessions.users: sequence of session objects
    channels,   \* sessions.channels: sequence of channel objects
    matches,    \* sessions.matches: index -> match object or Null
    sess,       \* the User objects
    chan,       \* the Channel objects
    mtch,       \* the Match objects
    db,         \* the users collection: latest_activity per account
    now,        \* time.time()
    lock,       \* sessions.users.lock: Null or the task holding it
    task,       \* login requests in flight
    pend,       \* packet requests suspended at an await, per session
    nalloc,     \* the Match objects made so far
    req,        \* a packet request: its body, its frames and the handlers invoked
    wire        \* a match on its way through the encoder and the decoder

vars == <<users, channels, matches, sess, chan, mtch, db, now, lock, task, pend, nalloc,
          req, wire>>

Pkt(op, x, y, s) == [op |-> op, x |-> x, y |-> y, s |-> s]

NoUser ==
    [acct |-> 0, name |-> 0, token |-> 0, tourney |-> FALSE, priv |-> {},
     latest_activity |-> 0, login_time |-> 0, channels |-> <<>>,
     spectating |-> Null, spectators |-> <<>>, match |-> Null,
     in_lobby |-> FALSE, queue |-> <<>>,
     silence_end |-> 0, friends |-> {}, blocked |-> {}, friend_only_dms |-> FALSE]

NoChannel == [real_name |-> NoChan, instance |-> FALSE, users |-> <<>>]

\* constants.mods: a mod combination is a set of mod names
NOMOD == {}

DoubleTime == "DoubleTime"

HardRock == "HardRock"

SPEED_MODS == {DoubleTime, "HalfTime", "Nightcore"}

\* MatchTeams
NEUTRAL == 0

BLUE == 1

RED == 2

\* MatchTeamTypes
HEAD_TO_HEAD == 0

TAG_COOP == 1

TEAM_VS == 2

TAG_TEAM_VS == 3

Slot ==
    [user |-> Null, status |-> OPEN, team |-> NEUTRAL, mods |-> NOMOD,
     loaded |-> FALSE, skipped |-> FALSE]

Match ==
    [id |-> 0, host_id |-> 0, password |-> "", in_progress |-> FALSE,
     mods |-> NOMOD, freemod |-> FALSE, map_id |-> 0, last_map_id |-> 0,
     team_type |-> HEAD_TO_HEAD,
     chat |-> NoChan, slots |-> [i \in SlotIdx |-> Slot], tourney_clients |-> {}]

\* the state record the handlers work on
St == [users |-> users, channels |-> channels, matches |-> matches,
       sess |-> sess, chan |-> chan, mtch |-> mtch, db |-> db,
       nalloc |-> nalloc, raised |-> FALSE]

\* a User object that is in no list, refers to nothing and is not held by the
\* pub/sub consumer is gone: its record returns to the blank NoUser
Unreferenced(st, u) ==
    /\ u \notin Range(st.users)
    /\ \A c \in ChanIds : u \notin Range(st.chan[c].users)
    /\ \A v \in SessIds : u \notin Range(st.sess[v].spectators) /\ st.sess[v].spectating # u
    /\ \A k \in MatchObjs : \A i \in SlotIdx : st.mtch[k].slots[i].user # u
    /\ st.sess[u].channels = <<>> /\ st.sess[u].spectators = <<>>
    /\ st.sess[u].spectating = Null /\ st.sess[u].match = Null
    /\ ~(req.pc \in {"handle_restriction", "handle_unrestriction"} /\ req.u = u)

\* likewise a Match object that neither the registry, nor a user, nor a
\* suspended request (p) refers to: its record returns to the blank Match
reclaim(st, p) ==
    [st EXCEPT !.sess = [u \in SessIds |->
                            IF Unreferenced(st, u) THEN NoUser ELSE st.sess[u]],
               !.mtch = [k \in MatchObjs |->
                            IF \/ \E i \in MatchIdx : st.matches[i] = k
                               \/ \E v \in SessIds : st.sess[v].match = k \/ p[v].m = k
                            THEN st.mtch[k] ELSE Match]]

Commit(st) ==
    /\ users' = st.users
    /\ channels' = st.channels
    /\ matches' = st.matches
    /\ sess' = st.sess
    /\ chan' = st.chan
    /\ mtch' = st.mtch
    /\ db' = st.db
    /\ nalloc' = st.nalloc

raise(st) == [st EXCEPT !.raised = TRUE]

----------------------------------------------------------------------------
(* User: queue, lookup, activity *)

restricted(st, u) == "RESTRICTED" \in st.sess[u].priv

\* User.enqueue.  The bot has no client and is never polled: what is appended
\* to its queue is never read, and the model does not keep it.
enqueue_mut(st, u, p) ==
    IF u = BotSess THEN st ELSE [st EXCEPT !.sess[u].queue = <<p>> \o @]

enqueue(st, u, p) ==
    IF u = BotSess THEN st ELSE [st EXCEPT !.sess[u].queue = Append(@, p)]

RECURSIVE enqueue_each(_, _, _)
enqueue_each(st, targets, p) ==
    IF targets = <<>> THEN st
    ELSE enqueue_each(enqueue(st, Head(targets), p), Tail(targets), p)

dequeue(st, u) == [st EXCEPT !.sess[u].queue = <<>>]

RECURSIVE FirstWith(_, _, _)
FirstWith(st, seq, id) ==
    IF seq = <<>> THEN Null
    ELSE IF st.sess[Head(seq)].acct = id THEN Head(seq)
    ELSE FirstWith(st, Tail(seq), id)

\* cache_fetch(id=...): the first session of sessions.users with that id
cache_fetch(st, id) == FirstWith(st, st.users, id)

RECURSIVE FirstNamed(_, _, _)
FirstNamed(st, seq, name) ==
    IF seq = <<>> THEN Null
    ELSE IF st.sess[Head(seq)].name = name THEN Head(seq)
    ELSE FirstNamed(st, Tail(seq), name)

\* fetch(name=...) without db=True: the first session with that name
fetch_name(st, name) == FirstNamed(st, st.users, name)

update_activity(st, u) ==
    IF st.raised THEN st
    ELSE [st EXCEPT !.db[st.sess[u].acct] = now,
                    !.sess[u].latest_activity = now]

\* time.time() is a float: a request is handled at now + frac / 2 seconds,
\* frac being the half second that has passed since the clock showed now
Fractions == {0, 1}

\* User.remaining_silence: max(0, int(silence_end - time.time())), int()
\* truncating towards zero; in seconds
remaining_silence(st, u, frac) ==
    LET halves == 2 * st.sess[u].silence_end - (2 * now + frac)
    IN  IF halves > 0 THEN halves \div 2 ELSE 0

silenced(st, u, frac) == remaining_silence(st, u, frac) # 0

UserList_append(st, u) ==
    IF u \in Range(st.users) THEN st ELSE [st EXCEPT !.users = Append(@, u)]

UserList_remove(st, u) ==
    IF u \notin Range(st.users) THEN st ELSE [st EXCEPT !.users = RemoveFirst(@, u)]

UserList_enqueue(st, p) == enqueue_each(st, st.users, p)

----------------------------------------------------------------------------
(* Channel *)

RECURSIVE FirstChan(_, _, _)
FirstChan(st, seq, name) ==
    IF seq = <<>> THEN NoChan
    ELSE IF st.chan[Head(seq)].real_name = name THEN Head(seq)
    ELSE FirstChan(st, Tail(seq), name)

\* ChannelList.get_by_name
get_by_name(st, name) == FirstChan(st, st.channels, name)

\* every channel the server makes has privileges = Privileges.NORMAL
has_permission(st, c, u) == "NORMAL" \in st.sess[u].priv

ChanDisplay(c) ==
    IF c[1] = "lobby" THEN "#lobby"
    ELSE IF c[1] = "spec" THEN "#spectator" ELSE "#multiplayer"

channel_info(st, c) == Pkt("channel_info", Len(st.chan[c].users), 0, ChanDisplay(c))

RECURSIVE enqueue_permitted(_, _, _, _)
enqueue_permitted(st, targets, c, p) ==
    IF targets = <<>> THEN st
    ELSE enqueue_permitted(
            IF has_permission(st, c, Head(targets)) THEN enqueue(st, Head(targets), p) ELSE st,
            Tail(targets), c, p)

\* the tail of join_channel and leave_channel: who is told the new count
send_channel_info(st, c) ==
    IF st.chan[c].instance
    THEN enqueue_each(st, st.chan[c].users, channel_info(st, c))
    ELSE enqueue_permitted(st, st.users, c, channel_info(st, c))

can_join_channel(st, u, c) ==
    ~ ( \/ u \in Range(st.chan[c].users)
        \/ ~has_permission(st, c, u)
        \/ (ChanDisplay(c) = "#lobby" /\ ~st.sess[u].in_lobby) )

join_channel(st, u, c) ==
    IF st.raised \/ ~can_join_channel(st, u, c) THEN st
    ELSE LET s1 == [st EXCEPT !.chan[c].users = Append(@, u),
                              !.sess[u].channels = Append(@, c)]
             s2 == enqueue(s1, u, Pkt("channel_join", 0, 0, ChanDisplay(c)))
         IN  send_channel_info(s2, c)

leave_channel_mut(st, u, c) ==
    IF st.raised THEN st
    ELSE IF c = NoChan THEN raise(st)
    ELSE IF u \notin Range(st.chan[c].users) THEN st
    ELSE LET s1 == [st EXCEPT !.chan[c].users = RemoveFirst(@, u)]
         IN  IF c \notin Range(s1.sess[u].channels) THEN raise(s1)
             ELSE send_channel_info(s1, c)

leave_channel(st, u, c) ==
    IF st.raised THEN st
    ELSE IF c = NoChan THEN raise(st)
    ELSE IF u \notin Range(st.chan[c].users) THEN st
    ELSE LET s1 == [st EXCEPT !.chan[c].users = RemoveFirst(@, u)]
         IN  IF c \notin Range(s1.sess[u].channels) THEN raise(s1)
             ELSE send_channel_info(
                    [s1 EXCEPT !.sess[u].channels = RemoveFirst(@, c)], c)

RECURSIVE Channel_enqueue(_, _, _, _)
Channel_enqueue(st, targets, p, immune) ==
    IF targets = <<>> THEN st
    ELSE Channel_enqueue(
            IF st.sess[Head(targets)].acct \in immune THEN st
            ELSE enqueue(st, Head(targets), p),
            Tail(targets), p, immune)

----------------------------------------------------------------------------
(* Spectating *)

RECURSIVE tell_newcomer(_, _, _)
tell_newcomer(st, specs, other_user) ==
    IF specs = <<>> THEN st
    ELSE tell_newcomer(
            enqueue(enqueue(st, Head(specs), Pkt("spectator_joined", st.sess[other_user].acct, 0, "")),
                    other_user, Pkt("spectator_joined", st.sess[Head(specs)].acct, 0, "")),
            Tail(specs), other_user)

add_spectator(st, user, other_user) ==
    IF st.raised THEN st
    ELSE LET name == SpecName(st.sess[user].acct)
             found == get_by_name(st, name)
             c == IF found = NoChan THEN SpecChan(st.sess[user].acct) ELSE found
             s1 == IF found # NoChan THEN st
                   ELSE LET made == [st EXCEPT !.chan[c] =
                                        [real_name |-> name, instance |-> TRUE, users |-> <<>>]]
                            joined == join_channel(made, user, c)
                        IN  [joined EXCEPT !.channels = Append(@, c)]
             s2 == join_channel(s1, other_user, c)
             s3 == tell_newcomer(s2, s2.sess[user].spectators, other_user)
             s4 == enqueue(s3, user, Pkt("host_spectator_joined", st.sess[other_user].acct, 0, ""))
         IN  [s4 EXCEPT !.sess[user].spectators = Append(@, other_user),
                        !.sess[other_user].spectating = user]

RECURSIVE tell_fellows_left(_, _, _, _)
tell_fellows_left(st, specs, other_user, c) ==
    IF specs = <<>> THEN st
    ELSE tell_fellows_left(
            enqueue(enqueue(st, Head(specs), Pkt("spectator_left", st.sess[other_user].acct, 0, "")),
                    Head(specs), channel_info(st, c)),
            Tail(specs), other_user, c)

remove_spectator_mut(st, user, other_user) ==
    IF st.raised THEN st
    ELSE IF other_user \notin Range(st.sess[user].spectators) THEN raise(st)
    ELSE LET host_told(s3) ==
                IF s3.raised THEN s3
                ELSE enqueue(s3, user,
                             Pkt("host_spectator_left", st.sess[other_user].acct, 0, ""))
             left(s2, c) ==
                host_told(
                    IF s2.raised THEN s2
                    ELSE IF s2.sess[user].spectators = <<>>
                    THEN leave_channel(s2, user, c)
                    ELSE tell_fellows_left(enqueue(s2, user, channel_info(s2, c)),
                                           s2.sess[user].spectators, other_user, c))
             leave(s1, c) == left(leave_channel(s1, other_user, c), c)
             removed(s1) == leave(s1, get_by_name(s1, SpecName(s1.sess[user].acct)))
         IN  removed([st EXCEPT !.sess[user].spectators = RemoveFirst(@, other_user)])

remove_spectator(st, user, other_user) ==
    IF st.raised THEN st
    ELSE IF other_user \notin Range(st.sess[user].spectators) THEN raise(st)
    ELSE LET host_told(s3) ==
                IF s3.raised THEN s3
                ELSE enqueue(s3, user,
                             Pkt("host_spectator_left", st.sess[other_user].acct, 0, ""))
             left(s2, c) ==
                host_told(
                    IF s2.raised THEN s2
                    ELSE IF s2.sess[user].spectators = <<>>
                    THEN leave_channel(s2, user, c)
                    ELSE tell_fellows_left(enqueue(s2, user, channel_info(s2, c)),
                                           s2.sess[user].spectators, other_user, c))
             leave(s1, c) == left(leave_channel(s1, other_user, c), c)
             removed(s1) == leave(s1, get_by_name(s1, SpecName(s1.sess[user].acct)))
         IN  removed([st EXCEPT !.sess[user].spectators = RemoveFirst(@, other_user),
                                !.sess[other_user].spectating = Null])

----------------------------------------------------------------------------
(* Logout *)

RECURSIVE remove_from_channels(_, _, _)
remove_from_channels(st, cs, u) ==
    IF cs = <<>> THEN st
    ELSE remove_from_channels(
            [st EXCEPT !.chan[Head(cs)].users = RemoveFirst(@, u)], Tail(cs), u)

logout(st, u) ==
    IF st.raised THEN st
    ELSE LET told(s3) ==
                IF s3.raised \/ restricted(s3, u) THEN s3
                ELSE UserList_enqueue(s3, Pkt("logout", st.sess[u].acct, 0, ""))
             parted(s2) ==
                told(IF s2.raised THEN s2
                     ELSE UserList_remove(
                            remove_from_channels(s2, s2.sess[u].channels, u), u))
             cleared(s1) ==
                parted(IF s1.sess[u].spectating # Null
                       THEN remove_spectator(s1, s1.sess[u].spectating, u) ELSE s1)
         IN  cleared([st EXCEPT !.sess[u].token = 0])

----------------------------------------------------------------------------
(* Match *)

HasUser(status) == BitAnd(status, HAS_USER) # 0

empty(slot) == slot.user = Null

\* Slot.reset
reset(new_status) ==
    [user |-> Null, status |-> new_status, team |-> NEUTRAL, mods |-> NOMOD,
     loaded |-> FALSE, skipped |-> FALSE]

\* Slot.copy_from
copy_from(slot, other) ==
    [slot EXCEPT !.user = other.user, !.status = other.status, !.team = other.team,
                 !.mods = other.mods]

Occupied(m) == {i \in SlotIdx : m.slots[i].user # Null}

Least(S) == CHOOSE i \in S : \A j \in S : i <= j

\* Match.get_slot_id: the first slot holding the user, Null (-1 here) if none
get_slot_id(m, u) ==
    IF \E i \in SlotIdx : m.slots[i].user = u
    THEN Least({i \in SlotIdx : m.slots[i].user = u}) ELSE -1

\* Match.get_free: the first slot whose status is OPEN
get_free(m) ==
    IF \E i \in SlotIdx : m.slots[i].status = OPEN
    THEN Least({i \in SlotIdx : m.slots[i].status = OPEN}) ELSE -1

\* usecases.match.host: cache_fetch(id=host_id), asserted not None; Null here
\* stands for the exception (ValueError for id 0, AssertionError otherwise)
host(st, k) == cache_fetch(st, st.mtch[k].host_id)

\* write_match and OsuMatch.serialise: slot_ids holds the ids of the occupied
\* slots only, and is indexed with the slot index of every slot whose status
\* has a user: the encoder raises IndexError when that index is out of range
can_serialise(m) ==
    \A i \in SlotIdx : HasUser(m.slots[i].status) => i < Cardinality(Occupied(m))

shown_password(m, send_pw) ==
    IF m.password = "" THEN "" ELSE IF send_pw THEN m.password ELSE "<hidden>"

update_match(m, send_pw) == Pkt("update_match", m.id, m.host_id, shown_password(m, send_pw))

lobby_listeners(st) ==
    LET lobby_chat == get_by_name(st, LobbyName)
    IN  IF lobby_chat = NoChan THEN <<>> ELSE st.chan[lobby_chat].users

\* usecases.match.enqueue
match_enqueue(st, k, p, lobby, immune) ==
    IF st.raised THEN st
    ELSE LET s1 == Channel_enqueue(st, st.chan[st.mtch[k].chat].users, p, immune)
         IN  IF lobby THEN Channel_enqueue(s1, lobby_listeners(s1), p, {}) ELSE s1

enqueue_state(st, k, lobby) ==
    IF st.raised THEN st
    ELSE IF ~can_serialise(st.mtch[k]) THEN raise(st)
    ELSE LET s1 == Channel_enqueue(st, st.chan[st.mtch[k].chat].users,
                                   update_match(st.mtch[k], TRUE), {})
         IN  IF lobby
             THEN Channel_enqueue(s1, lobby_listeners(s1), update_match(s1.mtch[k], FALSE), {})
             ELSE s1

\* the client's match packet, as from_packet keeps it
from_packet(packet_match) ==
    [Match EXCEPT !.password = packet_match.password,
                  !.host_id = packet_match.host_id,
                  !.mods = packet_match.mods,
                  !.freemod = packet_match.freemod,
                  !.map_id = packet_match.map_id,
                  !.team_type = packet_match.team_type,
                  !.slots = [i \in SlotIdx |->
                                [Slot EXCEPT !.status = packet_match.slot_statuses[i],
                                             !.team = packet_match.slot_teams[i]]]]

MatchList_get_free(st) ==
    IF \E i \in MatchIdx : st.matches[i] = Null
    THEN Least({i \in MatchIdx : st.matches[i] = Null}) ELSE -1

MatchList_remove(st, k) ==
    IF \E i \in MatchIdx : st.matches[i] = k
    THEN [st EXCEPT !.matches[Least({i \in MatchIdx : st.matches[i] = k})] = Null]
    ELSE st

match_join_fail(st, u) == enqueue(st, u, Pkt("match_join_fail", 0, 0, ""))

staff(st, u) == "STAFF" \in st.sess[u].priv

\* the seat and the announcements: the end of join_match
take_seat(st, u, k, slot_id) ==
    LET s1 == join_channel(st, u, st.mtch[k].chat)
        lobby == get_by_name(s1, LobbyName)
        s2 == IF lobby \in Range(s1.sess[u].channels) THEN leave_channel(s1, u, lobby) ELSE s1
        s3 == [s2 EXCEPT !.mtch[k].slots[slot_id] =
                            [@ EXCEPT !.user = u, !.status = NOT_READY,
                                      !.team = IF st.mtch[k].team_type \in {TEAM_VS, TAG_TEAM_VS}
                                               THEN RED ELSE @],
                         !.sess[u].match = k]
    IN  IF ~can_join_channel(st, u, st.mtch[k].chat) THEN st
        ELSE IF s2.raised THEN s2
        ELSE IF ~can_serialise(s3.mtch[k]) THEN raise(s3)
        ELSE enqueue_state(
                enqueue(s3, u, Pkt("match_join_success", s3.mtch[k].id, s3.mtch[k].host_id,
                                   shown_password(s3.mtch[k], TRUE))),
                k, TRUE)

join_match(st, u, k, password) ==
    IF st.raised THEN st
    ELSE IF st.sess[u].match # Null THEN match_join_fail(st, u)
    ELSE IF k = Null THEN raise(st)
    ELSE IF st.sess[u].acct \in st.mtch[k].tourney_clients THEN match_join_fail(st, u)
    ELSE IF host(st, k) = Null THEN raise(st)
    ELSE IF u # host(st, k)
    THEN IF password # st.mtch[k].password /\ ~staff(st, u) THEN match_join_fail(st, u)
         ELSE IF get_free(st.mtch[k]) = -1 THEN match_join_fail(st, u)
         ELSE take_seat(st, u, k, get_free(st.mtch[k]))
    ELSE take_seat(st, u, k, 0)

\* the host moves to the first slot whose status has a user
pass_host(st, k) ==
    LET m == st.mtch[k]
        cands == {i \in SlotIdx : HasUser(m.slots[i].status)}
    IN  IF cands = {} THEN st
        ELSE IF m.slots[Least(cands)].user = Null THEN raise(st)
        ELSE LET s1 == [st EXCEPT !.mtch[k].host_id = st.sess[m.slots[Least(cands)].user].acct]
             IN  IF host(s1, k) = Null THEN raise(s1)
                 ELSE enqueue(s1, host(s1, k), Pkt("match_transfer_host", 0, 0, ""))

leave_match(st, u) ==
    IF st.raised \/ st.sess[u].match = Null THEN st
    ELSE LET k == st.sess[u].match
             i == get_slot_id(st.mtch[k], u)
         IN  IF i = -1 THEN raise(st)
             ELSE LET new_status == IF st.mtch[k].slots[i].status = LOCKED THEN LOCKED ELSE OPEN
                      s1 == [st EXCEPT !.mtch[k].slots[i] = reset(new_status)]
                      s2 == leave_channel(s1, u, s1.mtch[k].chat)
                      s3 == IF s2.raised THEN s2
                            ELSE IF \A j \in SlotIdx : empty(s2.mtch[k].slots[j])
                            THEN Channel_enqueue(MatchList_remove(s2, k), lobby_listeners(s2),
                                                 Pkt("dispose_match", s2.mtch[k].id, 0, ""), {})
                            ELSE IF host(s2, k) = Null THEN raise(s2)
                            ELSE enqueue_state(IF u = host(s2, k) THEN pass_host(s2, k) ELSE s2,
                                               k, TRUE)
                  IN  IF s3.raised THEN s3 ELSE [s3 EXCEPT !.sess[u].match = Null]

\* usecases.match.start
start(st, k) ==
    LET m == st.mtch[k]
        missing_map == {st.sess[m.slots[i].user].acct :
                            i \in {j \in SlotIdx : m.slots[j].status = NO_MAP /\ m.slots[j].user # Null}}
        s1 == [st EXCEPT !.mtch[k].slots =
                    [i \in SlotIdx |->
                        IF HasUser(m.slots[i].status) /\ m.slots[i].status # NO_MAP
                        THEN [m.slots[i] EXCEPT !.status = PLAYING] ELSE m.slots[i]]]
        \* a NO_MAP slot without a user stops the loop at that slot
        ghosts == {i \in SlotIdx : m.slots[i].status = NO_MAP /\ m.slots[i].user = Null}
        s1g == [st EXCEPT !.mtch[k].slots =
                    [i \in SlotIdx |->
                        IF i < Least(ghosts) /\ HasUser(m.slots[i].status)
                                             /\ m.slots[i].status # NO_MAP
                        THEN [m.slots[i] EXCEPT !.status = PLAYING] ELSE m.slots[i]]]
        s2 == [s1 EXCEPT !.mtch[k].in_progress = TRUE]
    IN  IF ghosts # {} THEN raise(s1g)
        ELSE IF ~can_serialise(s2.mtch[k]) THEN raise(s2)
        ELSE enqueue_state(
                match_enqueue(s2, k, Pkt("match_start", s2.mtch[k].id, s2.mtch[k].host_id,
                                         shown_password(s2.mtch[k], TRUE)), FALSE, missing_map),
                k, TRUE)

\* Match.unready_users
unready_users(m, expected) ==
    [m EXCEPT !.slots = [i \in SlotIdx |->
        IF m.slots[i].status = expected THEN [m.slots[i] EXCEPT !.status = NOT_READY]
        ELSE m.slots[i]]]

----------------------------------------------------------------------------
(* Requests: the part of bancho_handler around the packet handlers *)

NoPend == [kind |-> "none", m |-> Null, pw |-> ""]

\* a session that can send a request: found by its token in sessions.users
\* the sessions a client can present a token for: fetch(token=...) finds
\* them, and the login that made them has answered
Live(u) ==
    /\ u \in Range(users) /\ sess[u].token # 0
    /\ \A t \in Tasks : ~(task[t].pc = "update_activity" /\ task[t].u = u)

\* queues are drained by the owner's poll; handlers wait for the polls so
\* that the queues stay short (this restricts the order only: a poll is
\* always possible and changes nothing but the queue and the activity time)
QueuesBounded == \A v \in SessIds : Live(v) => Len(sess[v].queue) <= MaxQueue

CanRequest(u) == Live(u) /\ pend[u] = NoPend /\ QueuesBounded

\* after the handlers: update_activity and the drained queue as response;
\* a handler that raised ends the request before both
bancho_handler(st, u) ==
    IF st.raised THEN st ELSE dequeue(update_activity(st, u), u)

Respond(st, u) ==
    /\ Commit(reclaim(bancho_handler(st, u), [pend EXCEPT ![u] = NoPend]))
    /\ pend' = [pend EXCEPT ![u] = NoPend]
    /\ UNCHANGED <<now, lock, task, req, wire>>

\* the handler has reached an await that suspends the request
Suspend(st, u, p) ==
    /\ Commit(reclaim(st, [pend EXCEPT ![u] = p]))
    /\ pend' = [pend EXCEPT ![u] = p]
    /\ UNCHANGED <<now, lock, task, req, wire>>

\* a request without handled frames (OSU_PING has no handler)
Poll(u) ==
    /\ Live(u) /\ pend[u] = NoPend
    /\ sess[u].queue # <<>> \/ sess[u].latest_activity # now
    /\ Respond(St, u)

----------------------------------------------------------------------------
(* Packet handlers: logout and spectating *)

api_logout(st, u) ==
    IF now - st.sess[u].login_time < LogoutGrace THEN st
    ELSE update_activity(logout(st, u), u)

RECURSIVE tell_fellows_again(_, _, _, _)
tell_fellows_again(st, specs, u, p) ==
    IF specs = <<>> THEN st
    ELSE tell_fellows_again(IF Head(specs) # u THEN enqueue(st, u, p) ELSE st,
                            Tail(specs), u, p)

api_start_spectating(st, u, target_id) ==
    IF target_id = 0 THEN raise(st)
    ELSE LET target == cache_fetch(st, target_id)
             existing_host == st.sess[u].spectating
         IN  IF target = Null THEN st
             ELSE IF existing_host # Null /\ existing_host = target
             THEN tell_fellows_again(
                    enqueue(st, target, Pkt("host_spectator_joined", st.sess[u].acct, 0, "")),
                    st.sess[target].spectators, u,
                    Pkt("spectator_joined", st.sess[u].acct, 0, ""))
             ELSE IF existing_host # Null
             THEN add_spectator(remove_spectator(st, existing_host, u), target, u)
             ELSE add_spectator(st, target, u)

api_stop_spectating(st, u) ==
    IF st.sess[u].spectating = Null THEN st
    ELSE remove_spectator(st, st.sess[u].spectating, u)

Logout(u) == CanRequest(u) /\ Respond(api_logout(St, u), u)

StartSpectating(u, target_id) ==
    CanRequest(u) /\ Respond(api_start_spectating(St, u, target_id), u)

StopSpectating(u) == CanRequest(u) /\ Respond(api_stop_spectating(St, u), u)

----------------------------------------------------------------------------
(* Packet handlers: lobby and channels *)

RECURSIVE send_new_matches(_, _, _)
send_new_matches(st, u, idxs) ==
    IF idxs = <<>> \/ st.raised THEN st
    ELSE LET k == st.matches[Head(idxs)]
         IN  IF k = Null THEN send_new_matches(st, u, Tail(idxs))
             ELSE IF ~can_serialise(st.mtch[k]) THEN raise(st)
             ELSE send_new_matches(
                    enqueue(st, u, Pkt("new_match", st.mtch[k].id, st.mtch[k].host_id,
                                       shown_password(st.mtch[k], TRUE))),
                    u, Tail(idxs))

api_join_lobby(st, u) ==
    send_new_matches([st EXCEPT !.sess[u].in_lobby = TRUE], u,
                     [i \in 1..MaxMatches |-> i - 1])

api_join_channel(st, u, channel_name) ==
    LET channel == get_by_name(st, channel_name)
    IN  IF channel = NoChan THEN st ELSE join_channel(st, u, channel)

api_leave_channel(st, u, channel_name) ==
    LET channel == get_by_name(st, channel_name)
    IN  IF channel = NoChan THEN st
        ELSE IF u \notin Range(st.chan[channel].users) THEN st
        ELSE leave_channel(st, u, channel)

JoinLobby(u) == CanRequest(u) /\ Respond(api_join_lobby(St, u), u)

ChannelJoin(u, channel_name) ==
    CanRequest(u) /\ Respond(api_join_channel(St, u, channel_name), u)

ChannelPart(u, channel_name) ==
    CanRequest(u) /\ Respond(api_leave_channel(St, u, channel_name), u)

----------------------------------------------------------------------------
(* Packet handlers: multiplayer *)

\* create_match up to its await: the match and its channel are registered
create_match_begin(st, u, packet_match) ==
    LET idx == MatchList_get_free(st)
        k == st.nalloc.mtch + 1
        c == MultiChan(k)
    IN  IF idx = -1
        THEN match_join_fail(
                enqueue(st, u, Pkt("send_message", BotId, 0,
                                   "Failed to create match (no slots are left)")), u)
        ELSE [st EXCEPT !.nalloc.mtch = k,
                        !.mtch[k] = [from_packet(packet_match) EXCEPT !.id = idx, !.chat = c],
                        !.matches[idx] = k,
                        !.chan[c] = [real_name |-> MultiName(idx), instance |-> TRUE,
                                     users |-> <<>>],
                        !.channels = Append(@, c)]

\* create_match after the await
create_match_end(st, u, k) == join_match(update_activity(st, u), u, k, st.mtch[k].password)

\* create_match and join_match for a silenced user
multi_refused(st, u) ==
    enqueue(match_join_fail(st, u), u,
            Pkt("notification", 0, 0, "Multiplayer is not available while silenced."))

CreateMatch(u, packet_match) ==
    /\ CanRequest(u)
    /\ nalloc.mtch < MaxMatchObjs
    /\ \E frac \in Fractions :
        IF silenced(St, u, frac) THEN Respond(multi_refused(St, u), u)
        ELSE IF MatchList_get_free(St) = -1
        THEN Respond(create_match_begin(St, u, packet_match), u)
        ELSE Suspend(create_match_begin(St, u, packet_match), u,
                     [kind |-> "create", m |-> nalloc.mtch + 1, pw |-> ""])

CreateMatchResume(u) ==
    /\ pend[u].kind = "create"
    /\ Respond(create_match_end(St, u, pend[u].m), u)

\* join_match up to its await: a missing match is answered with
\* match_join_fail, and the handler goes on
join_match_begin(st, u, match_id) ==
    IF st.matches[match_id] = Null THEN match_join_fail(st, u) ELSE st

JoinMatch(u, match_id, password) ==
    /\ CanRequest(u)
    /\ \E frac \in Fractions :
        IF silenced(St, u, frac) THEN Respond(multi_refused(St, u), u)
        ELSE Suspend(join_match_begin(St, u, match_id), u,
                     [kind |-> "join", m |-> matches[match_id], pw |-> password])

JoinMatchResume(u) ==
    /\ pend[u].kind = "join"
    /\ Respond(join_match(update_activity(St, u), u, pend[u].m, pend[u].pw), u)

api_leave_match(st, u) == leave_match(update_activity(st, u), u)

LeaveMatch(u) == CanRequest(u) /\ Respond(api_leave_match(St, u), u)

\* `match.slots[slot_id] != SlotStatus.OPEN` compares a Slot object with a
\* status: the two are never equal
SlotIsStatus(slot, status) == FALSE

api_change_match_slot(st, u, slot_id) ==
    LET k == st.sess[u].match
    IN  IF k = Null THEN st
        ELSE IF ~(0 <= slot_id /\ slot_id < 16 /\ slot_id \in SlotIdx) THEN st
        ELSE IF ~SlotIsStatus(st.mtch[k].slots[slot_id], OPEN) THEN st
        ELSE IF get_slot_id(st.mtch[k], u) = -1 THEN raise(st)
        ELSE enqueue_state(
                [st EXCEPT !.mtch[k].slots[slot_id] =
                                copy_from(@, st.mtch[k].slots[get_slot_id(st.mtch[k], u)]),
                           !.mtch[k].slots[get_slot_id(st.mtch[k], u)] = reset(OPEN)],
                k, TRUE)

\* the handlers that set the sender's slot status and rebroadcast
set_own_status(st, u, status, lobby) ==
    LET k == st.sess[u].match
    IN  IF k = Null THEN st
        ELSE IF get_slot_id(st.mtch[k], u) = -1 THEN raise(st)
        ELSE enqueue_state(
                [st EXCEPT !.mtch[k].slots[get_slot_id(st.mtch[k], u)].status = status],
                k, lobby)

api_match_ready(st, u) == set_own_status(st, u, READY, TRUE)

api_match_unready(st, u) == set_own_status(st, u, NOT_READY, FALSE)

api_missing_beatmap(st, u) == set_own_status(st, u, NO_MAP, FALSE)

api_lock_match(st, u, slot_id) ==
    LET k == st.sess[u].match
    IN  IF k = Null THEN st
        ELSE IF host(st, k) = Null THEN raise(st)
        ELSE IF u # host(st, k) THEN st
        ELSE IF ~(0 <= slot_id /\ slot_id < 16 /\ slot_id \in SlotIdx) THEN st
        ELSE IF st.mtch[k].slots[slot_id].status = LOCKED
        THEN enqueue_state([st EXCEPT !.mtch[k].slots[slot_id].status = OPEN], k, TRUE)
        ELSE IF st.mtch[k].slots[slot_id].user = host(st, k) THEN st
        ELSE enqueue_state([st EXCEPT !.mtch[k].slots[slot_id].status = LOCKED], k, TRUE)

api_start_match(st, u) ==
    LET k == st.sess[u].match
    IN  IF k = Null THEN st
        ELSE IF host(st, k) = Null THEN raise(st)
        ELSE IF u # host(st, k) THEN st
        ELSE start(st, k)

api_match_complete(st, u) ==
    LET k == st.sess[u].match
    IN  IF k = Null THEN st
        ELSE IF get_slot_id(st.mtch[k], u) = -1 THEN raise(st)
        ELSE LET s1 == [st EXCEPT !.mtch[k].slots[get_slot_id(st.mtch[k], u)].status = COMPLETE]
                 m == s1.mtch[k]
                 idle == {i \in SlotIdx : HasUser(m.slots[i].status) /\ m.slots[i].status # COMPLETE}
                 not_playing == {s1.sess[m.slots[i].user].acct : i \in idle}
                 s2 == [s1 EXCEPT !.mtch[k] = [unready_users(m, COMPLETE) EXCEPT !.in_progress = FALSE]]
             IN  IF \E i \in SlotIdx : m.slots[i].status = PLAYING THEN s1
                 ELSE IF \E i \in idle : m.slots[i].user = Null THEN raise(s1)
                 ELSE enqueue_state(
                        match_enqueue(s2, k, Pkt("match_complete", 0, 0, ""), FALSE, not_playing),
                        k, TRUE)

api_transfer_host(st, u, slot_id) ==
    LET k == st.sess[u].match
    IN  IF k = Null THEN st
        ELSE IF host(st, k) = Null THEN raise(st)
        ELSE IF u # host(st, k) THEN st
        ELSE IF ~(0 <= slot_id /\ slot_id < 16 /\ slot_id \in SlotIdx) THEN st
        ELSE IF st.mtch[k].slots[slot_id].user = Null THEN st
        ELSE LET s1 == [st EXCEPT !.mtch[k].host_id =
                                    st.sess[st.mtch[k].slots[slot_id].user].acct]
             IN  IF host(s1, k) = Null THEN raise(s1)
                 ELSE enqueue_state(
                        enqueue(s1, host(s1, k), Pkt("match_transfer_host", 0, 0, "")),
                        k, TRUE)

ChangeSlot(u, slot_id) == CanRequest(u) /\ Respond(api_change_match_slot(St, u, slot_id), u)

Ready(u) == CanRequest(u) /\ Respond(api_match_ready(St, u), u)

NotReady(u) == CanRequest(u) /\ Respond(api_match_unready(St, u), u)

MissingBeatmap(u) == CanRequest(u) /\ Respond(api_missing_beatmap(St, u), u)

LockMatch(u, slot_id) == CanRequest(u) /\ Respond(api_lock_match(St, u, slot_id), u)

StartMatch(u) == CanRequest(u) /\ Respond(api_start_match(St, u), u)

MatchComplete(u) == CanRequest(u) /\ Respond(api_match_complete(St, u), u)

TransferHost(u, slot_id) == CanRequest(u) /\ Respond(api_transfer_host(St, u, slot_id), u)

api_tourney_join_channel(st, u, match_id) ==
    LET k == st.matches[match_id]
    IN  IF ~(0 <= match_id /\ match_id < 64) THEN st
        ELSE IF "SUPPORTER" \notin st.sess[u].priv THEN st
        ELSE IF k = Null THEN st
        ELSE IF \E i \in Occupied(st.mtch[k]) :
                    st.sess[st.mtch[k].slots[i].user].acct = st.sess[u].acct
        THEN st
        ELSE IF ~can_join_channel(st, u, st.mtch[k].chat) THEN st
        ELSE [join_channel(st, u, st.mtch[k].chat)
                EXCEPT !.mtch[k].tourney_clients = @ \cup {st.sess[u].acct}]

\* set.remove raises KeyError for a user who is no tourney client
api_tourney_leave_channel(st, u, match_id) ==
    LET k == st.matches[match_id]
        left(s1) ==
            IF s1.raised THEN s1
            ELSE IF s1.sess[u].acct \notin s1.mtch[k].tourney_clients THEN raise(s1)
            ELSE [s1 EXCEPT !.mtch[k].tourney_clients = @ \ {s1.sess[u].acct}]
    IN  IF ~(0 <= match_id /\ match_id < 64) THEN st
        ELSE IF "SUPPORTER" \notin st.sess[u].priv THEN st
        ELSE IF k = Null THEN st
        ELSE left(leave_channel(st, u, st.mtch[k].chat))

TourneyJoinChannel(u, match_id) ==
    CanRequest(u) /\ Respond(api_tourney_join_channel(St, u, match_id), u)

TourneyLeaveChannel(u, match_id) ==
    CanRequest(u) /\ Respond(api_tourney_leave_channel(St, u, match_id), u)

----------------------------------------------------------------------------
(* Match settings and mods *)

\* User.receive_message
receive_message(st, u, msg_content, sender) ==
    enqueue(st, u, Pkt("send_message", st.sess[sender].name, st.sess[u].name, msg_content))

RECURSIVE selective_send(_, _, _, _, _)
selective_send(st, c, msg, sender, recipients) ==
    IF recipients = <<>> THEN st
    ELSE selective_send(
            IF Head(recipients) \in Range(st.chan[c].users)
            THEN receive_message(st, Head(recipients), msg, sender) ELSE st,
            c, msg, sender, Tail(recipients))

\* Channel.send
Channel_send(st, c, msg, sender) ==
    IF ~has_permission(st, c, sender) THEN st
    ELSE selective_send(st, c, msg, sender, st.chan[c].users)

\* the first slot that has a user and whose user is the host; -1 for None
get_host_slot(st, k) ==
    LET seated == {i \in SlotIdx : /\ HasUser(st.mtch[k].slots[i].status)
                                   /\ st.mtch[k].slots[i].user = host(st, k)}
    IN  IF seated = {} THEN -1 ELSE Least(seated)

\* change_match_settings, the freemod part
toggle_freemod(st, k, freemod) ==
    LET m == st.mtch[k]
        hs == get_host_slot(st, k)
        on == [m EXCEPT !.freemod = TRUE,
                        !.mods = @ \cap SPEED_MODS,
                        !.slots = [i \in SlotIdx |->
                            IF HasUser(m.slots[i].status)
                            THEN [m.slots[i] EXCEPT !.mods = m.mods \ SPEED_MODS]
                            ELSE m.slots[i]]]
        off == [m EXCEPT !.freemod = FALSE,
                         !.mods = @ \cup (m.slots[hs].mods \cap SPEED_MODS),
                         !.slots = [i \in SlotIdx |->
                            IF HasUser(m.slots[i].status)
                            THEN [m.slots[i] EXCEPT !.mods = NOMOD]
                            ELSE m.slots[i]]]
    IN  IF freemod = m.freemod THEN st
        ELSE IF freemod THEN [st EXCEPT !.mtch[k] = on]
        ELSE IF hs = -1 THEN raise([st EXCEPT !.mtch[k].freemod = FALSE])
        ELSE [st EXCEPT !.mtch[k] = off]

\* change_match_settings, the beatmap part
select_map(st, k, map_id) ==
    LET m == st.mtch[k]
        s1 == [st EXCEPT !.mtch[k].map_id = map_id]
    IN  IF st.raised THEN st
        ELSE IF map_id = -1
        THEN [st EXCEPT !.mtch[k] = [unready_users(m, READY) EXCEPT
                                        !.last_map_id = m.map_id, !.map_id = -1]]
        ELSE IF m.map_id # -1 THEN st
        ELSE IF m.last_map_id # map_id THEN Channel_send(s1, m.chat, "Selected", BotSess)
        ELSE s1

\* change_match_settings, the team type part
set_team_type(st, k, team_type) ==
    LET m == st.mtch[k]
        new_type == IF team_type \in {HEAD_TO_HEAD, TAG_COOP} THEN NEUTRAL ELSE RED
    IN  IF st.raised \/ m.team_type = team_type THEN st
        ELSE [st EXCEPT !.mtch[k].team_type = team_type,
                        !.mtch[k].slots = [i \in SlotIdx |->
                            IF HasUser(m.slots[i].status)
                            THEN [m.slots[i] EXCEPT !.team = new_type] ELSE m.slots[i]]]

\* the win condition and the name of the packet are not part of the state
api_change_match_settings(st, u, freemod, map_id, team_type) ==
    LET k == st.sess[u].match
    IN  IF k = Null THEN st
        ELSE IF host(st, k) = Null THEN raise(st)
        ELSE IF u # host(st, k) THEN st
        ELSE enqueue_state(
                set_team_type(select_map(toggle_freemod(st, k, freemod), k, map_id),
                              k, team_type),
                k, TRUE)

api_change_match_mods(st, u, mods) ==
    LET k == st.sess[u].match
        m == st.mtch[k]
        s1 == IF u = host(st, k) THEN [st EXCEPT !.mtch[k].mods = mods \cap SPEED_MODS] ELSE st
    IN  IF k = Null THEN st
        ELSE IF host(st, k) = Null THEN raise(st)
        ELSE IF m.freemod
        THEN IF get_slot_id(m, u) = -1 THEN raise(s1)
             ELSE enqueue_state(
                    [s1 EXCEPT !.mtch[k].slots[get_slot_id(m, u)].mods = mods \ SPEED_MODS],
                    k, TRUE)
        ELSE IF u # host(st, k) THEN st
        ELSE enqueue_state([st EXCEPT !.mtch[k].mods = mods], k, TRUE)

ChangeMatchSettings(u, freemod, map_id, team_type) ==
    CanRequest(u)
    /\ Respond(api_change_match_settings(St, u, freemod, map_id, team_type), u)

ChangeMatchMods(u, mods) ==
    CanRequest(u) /\ Respond(api_change_match_mods(St, u, mods), u)

----------------------------------------------------------------------------
(* Chat *)

\* str.strip on the message contents clients send here
strip(content) ==
    IF content = " " THEN "" ELSE IF content = " hi " THEN "hi" ELSE content

IGNORED_CHANNELS == {<<"#highlight", 0>>, <<"#userlog", 0>>}

\* the channel a public message is for: NoChan for None
target_channel(st, u, recipient) ==
    IF recipient = <<"#spectator", 0>>
    THEN get_by_name(st, SpecName(IF st.sess[u].spectating # Null
                                  THEN st.sess[st.sess[u].spectating].acct
                                  ELSE st.sess[u].acct))
    ELSE IF recipient = <<"#multiplayer", 0>> THEN st.mtch[st.sess[u].match].chat
    ELSE get_by_name(st, recipient)

api_send_public_message(st, u, frac, content, recipient) ==
    IF silenced(st, u, frac) THEN st
    ELSE IF strip(content) = "" THEN st
    ELSE IF recipient \in IGNORED_CHANNELS THEN st
    ELSE IF recipient = <<"#multiplayer", 0>> /\ st.sess[u].match = Null THEN st
    ELSE LET target == target_channel(st, u, recipient)
         IN  IF target = NoChan THEN st
             ELSE IF u \notin Range(st.chan[target].users) THEN st
             ELSE IF ~has_permission(st, target, u) THEN st
             ELSE update_activity(Channel_send(st, target, strip(content), u), u)

api_private_message(st, u, frac, content, target_name) ==
    LET target == fetch_name(st, target_name)
    IN  IF silenced(st, u, frac) THEN st
        ELSE IF strip(content) = "" THEN st
        ELSE IF target = Null THEN st
        ELSE IF st.sess[u].acct \in st.sess[target].blocked
        THEN enqueue(st, u, Pkt("user_dm_blocked", 0, target_name, ""))
        ELSE IF st.sess[target].friend_only_dms /\ st.sess[u].acct \notin st.sess[target].friends
        THEN enqueue(st, u, Pkt("user_dm_blocked", 0, target_name, ""))
        ELSE IF silenced(st, target, frac)
        THEN enqueue(st, u, Pkt("target_silenced", 0, target_name, ""))
        ELSE update_activity(receive_message(st, target, strip(content), u), u)

api_toggle_dms(st, u, value) ==
    update_activity([st EXCEPT !.sess[u].friend_only_dms = (value = 1)], u)

SendPublicMessage(u, frac, content, recipient) ==
    CanRequest(u) /\ Respond(api_send_public_message(St, u, frac, content, recipient), u)

PrivateMessage(u, frac, content, target_name) ==
    CanRequest(u) /\ Respond(api_private_message(St, u, frac, content, target_name), u)

ToggleDMs(u, value) == CanRequest(u) /\ Respond(api_toggle_dms(St, u, value), u)

----------------------------------------------------------------------------
(* Initial states *)

\* names are a spelling of an account's name: spelling 0 is the one stored in
\* the users collection; make_safe_name maps every spelling to the same key
Spelling(a, v) == 2 * a + v
make_safe_name(name) == name \div 2

AcctPriv(a) == IF a = 2 THEN {"NORMAL", "SUPPORTER"} ELSE {"NORMAL"}

Lobby == [real_name |-> LobbyName, instance |-> FALSE, users |-> <<>>]

\* populate_sessions: the bot (fetched with db=True, token "") and #lobby
Bot ==
    [NoUser EXCEPT !.acct = BotId, !.name = Spelling(BotId, 0),
                   !.priv = {"NORMAL"}]

\* a session as create_session builds it and login leaves it
Session(a, name, tok, t) ==
    [NoUser EXCEPT !.acct = a, !.name = name, !.token = tok,
                   !.priv = AcctPriv(a), !.latest_activity = t, !.login_time = t]

\* no request body and no match is being worked on
NoRequest ==
    [pc |-> "none", u |-> Null, frames |-> <<>>, data |-> <<>>, packet_map |-> {},
     packets |-> <<>>, handled |-> <<>>]

NoWire == [pc |-> "none", match |-> Match, ids |-> <<>>, data |-> <<>>, read |-> <<>>]

NoIO == req = NoRequest /\ wire = NoWire

InitRegistries ==
    /\ channels = <<LobbyChan>>
    /\ chan = [c \in ChanIds |-> IF c = LobbyChan THEN Lobby ELSE NoChannel]
    /\ matches = [i \in MatchIdx |-> Null]
    /\ mtch = [k \in MatchObjs |-> Match]
    /\ lock = Null
    /\ pend = [s \in SessIds |-> NoPend]

\* after startup
InitServer ==
    /\ InitRegistries
    /\ users = <<BotSess>>
    /\ sess = [s \in SessIds |-> IF s = BotSess THEN Bot ELSE NoUser]
    /\ db = [a \in Accts |-> 0]
    /\ now = 0
    /\ nalloc = [mtch |-> 0]

\* every player logged in at time 0 and last active at TickStep; in_lobby
\* tells whether they have sent JOIN_LOBBY since
PlayersOnline(in_lobby) ==
    /\ InitRegistries
    /\ users = [i \in 1..(NumPlayers + 1) |-> i]
    /\ sess = [s \in SessIds |->
                IF s = BotSess THEN Bot
                ELSE IF s \in PlayerAccts
                THEN [Session(s, Spelling(s, 0), s, 0) EXCEPT !.latest_activity = TickStep,
                                                              !.in_lobby = in_lobby]
                ELSE NoUser]
    /\ db = [a \in Accts |-> IF a = BotId THEN 0 ELSE TickStep]
    /\ now = TickStep
    /\ nalloc = [mtch |-> 0]

InitPlayers == PlayersOnline(FALSE)

----------------------------------------------------------------------------
(* Login *)

\* a login request: the name and stream the client sent, where the request
\* is, the session it made, and the accounts that logins running alongside
\* it have created a session for (tourney logins apart); when the request
\* is over, the answer it gave: token and body
NoTask ==
    [pc |-> "idle", username |-> 0, stream |-> "", u |-> Null, won |-> {},
     token |-> <<>>, body |-> ""]

\* an account of the users collection by safe_name: find_one
find_one(username) ==
    IF \E a \in Accts : make_safe_name(Spelling(a, 0)) = make_safe_name(username)
    THEN CHOOSE a \in Accts : make_safe_name(Spelling(a, 0)) = make_safe_name(username)
    ELSE Null

\* the name nobody has registered
UnknownName == Spelling(OfflineId, 0)

Usernames == {Spelling(a, v) : a \in PlayerAccts, v \in {0, 1}} \cup {UnknownName}

Streams == {"stable", "tourney"}

\* the blank User records: a new session takes the first
FreeSess(st) == {s \in SessIds \ {BotSess} : st.sess[s] = NoUser}

uuid4_mut(st) == BotSess + 1

\* str(uuid4()): a token no session has
uuid4(st) == Least(FreeSess(st))

\* User.can_tourney
can_tourney(user) == "SUPPORTER" \in user.priv

\* the duplicate-login check applies to this login
duplicate(st, d) ==
    /\ fetch_name(st, d.username) # Null
    /\ ~(d.stream = "tourney" \/ st.sess[fetch_name(st, d.username)].tourney)

idle_too_long_mut(st, e) == now - st.sess[e].latest_activity >= IdleLimit

idle_too_long(st, e) == now - st.sess[e].latest_activity > IdleLimit

\* login up to create_session, for a request whose version parses or not and
\* whose adapters are acceptable or not: body "" means the login goes on
login_begin(st, d, osu_version, adapters) ==
    LET logged_user == fetch_name(st, d.username)
        adapters_checked(s1) ==
            IF s1.raised THEN [st |-> s1, body |-> "error"]
            ELSE IF ~adapters THEN [st |-> s1, body |-> "user_id(-5)"]
            ELSE [st |-> s1, body |-> ""]
    IN  IF ~osu_version
        THEN [st |-> st, body |-> "version_update_forced"]
        ELSE IF duplicate(st, d) /\ ~idle_too_long(st, logged_user)
        THEN [st |-> st, body |-> "You are already logged in!"]
        ELSE adapters_checked(IF duplicate(st, d) THEN logout(st, logged_user) ELSE st)

\* create_session: the User object of a login
create_session(st, d, acct) ==
    [Session(acct, Spelling(acct, 0), uuid4(st), now)
        EXCEPT !.latest_activity = st.db[acct]]

\* the startup burst and the registration of the session
login_burst(st, u) ==
    UserList_append(
        IF restricted(st, u) THEN st
        ELSE enqueue_each(st, st.users, Pkt("user_data", st.sess[u].acct, 0, "")), u)

\* login from create_session to its last await, for a request whose password
\* verifies or not and whose hardware matches another user's or not
login_auth(st, d, verify_password, hw_matches) ==
    LET acct == find_one(d.username)
        u == Least(FreeSess(st))
        user == [create_session(st, d, acct) EXCEPT !.tourney = (d.stream = "tourney")]
    IN  IF acct = Null THEN [st |-> st, body |-> "user_id(-1)"]
        ELSE IF ~verify_password THEN [st |-> st, body |-> "user_id(-1)"]
        ELSE IF hw_matches
        THEN [st |-> st, body |-> "user_id(-1) Please contact staff."]
        ELSE IF d.stream = "tourney" /\ ~can_tourney(user)
        THEN [st |-> st, body |-> "user_id(-5)"]
        ELSE [st |-> login_burst([st EXCEPT !.sess[u] = user], u),
              body |-> ""]

\* the end of login: update_activity has returned
login_end(st, u) == [update_activity(st, u) EXCEPT !.sess[u].login_time = now]

InFlight(t) == task[t].pc \notin {"idle", "done"}

\* a login request arrives and waits for sessions.users.lock
LoginArrive(t, username, stream) ==
    /\ task[t].pc = "idle"
    /\ Cardinality({t2 \in Tasks : InFlight(t2)}) < Cardinality(FreeSess(St))
    /\ task' = [task EXCEPT ![t] = [NoTask EXCEPT !.pc = "waiting", !.username = username,
                                                   !.stream = stream]]
    /\ UNCHANGED <<users, channels, matches, sess, chan, mtch, db, now, lock, pend, nalloc,
                   req, wire>>

\* the request ends with a rejection
Rejected(t, body) ==
    [task EXCEPT ![t] = [NoTask EXCEPT !.pc = "done", !.token = <<"no">>, !.body = body]]

\* the request ends with the token of its session; the logins still running
\* have run alongside it
Accepted(t) ==
    [t2 \in Tasks |->
        IF t2 = t
        THEN [NoTask EXCEPT !.pc = "done", !.token = <<"token", sess[task[t].u].token>>,
                            !.body = "welcome"]
        ELSE IF InFlight(t2) /\ task[t].stream # "tourney"
        THEN [task[t2] EXCEPT !.won = @ \cup {sess[task[t].u].acct}]
        ELSE task[t2]]

LoginBegin(t, osu_version, adapters) ==
    LET r == login_begin(St, task[t], osu_version, adapters)
    IN  /\ task[t].pc = "waiting" /\ lock = Null /\ QueuesBounded
        /\ Commit(reclaim(r.st, pend))
        /\ IF r.body = ""
           THEN lock' = t /\ task' = [task EXCEPT ![t].pc = "create_session"]
           ELSE lock' = Null /\ task' = Rejected(t, r.body)
        /\ UNCHANGED <<now, pend, req, wire>>

LoginAuth(t, verify_password, hw_matches) ==
    LET r == login_auth(St, task[t], verify_password, hw_matches)
    IN  /\ task[t].pc = "create_session" /\ QueuesBounded
        /\ Commit(r.st)
        /\ IF r.body = ""
           THEN lock' = lock /\ task' = [task EXCEPT ![t].pc = "update_activity",
                                                      ![t].u = Least(FreeSess(St))]
           ELSE lock' = Null /\ task' = Rejected(t, r.body)
        /\ UNCHANGED <<now, pend, req, wire>>

LoginFinish(t) ==
    /\ task[t].pc = "update_activity"
    /\ Commit(login_end(St, task[t].u))
    /\ lock' = Null
    /\ task' = Accepted(t)
    /\ UNCHANGED <<now, pend, req, wire>>

Tick ==
    /\ now < MaxTicks * TickStep
    /\ now' = now + TickStep
    /\ UNCHANGED <<users, channels, matches, sess, chan, mtch, db, lock, task, pend, nalloc,
                   req, wire>>

InitLogin == InitServer /\ task = [t \in Tasks |-> NoTask] /\ NoIO

NextLogin ==
    \/ \E t \in Tasks :
        \/ \E username \in Usernames : \E stream \in Streams :
            LoginArrive(t, username, stream)
        \/ \E osu_version \in BOOLEAN : \E adapters \in BOOLEAN :
            LoginBegin(t, osu_version, adapters)
        \/ \E verify_password \in BOOLEAN : \E hw_matches \in BOOLEAN :
            LoginAuth(t, verify_password, hw_matches)
        \/ LoginFinish(t)
    \/ \E u \in SessIds : Logout(u) \/ Poll(u)
    \/ Tick

SpecLogin == InitLogin /\ [][NextLogin]_vars

\* C3: of two logins for the same account that run alongside each other,
\* neither on the tourney stream, at most one gets a session into
\* sessions.users: no login registers a session for an account that a login
\* running alongside it has got a session for
C3_ConcurrentLoginsExclusive ==
    \A t \in Tasks :
        (task[t].pc = "update_activity" /\ task[t].stream # "tourney")
            => sess[task[t].u].acct \notin task[t].won

\* C4: no user id occurs more than once in sessions.users
C4_UsersUniqueById ==
    \A i, j \in 1..Len(users) : i # j => sess[users[i]].acct # sess[users[j]].acct

\* C5 as stated: every user in sessions.users, the bot included, has a
\* non-empty token, and the tokens are pairwise distinct
C5_TokensNonEmptyDistinct ==
    /\ \A i \in 1..Len(users) : sess[users[i]].token # 0
    /\ \A i, j \in 1..Len(users) : i # j => sess[users[i]].token # sess[users[j]].token

\* C5: every user in sessions.users other than the bot has a non-empty
\* token, and the tokens in sessions.users are pairwise distinct
C5_PlayerTokensNonEmptyDistinct ==
    /\ \A i \in 1..Len(users) : users[i] # BotSess => sess[users[i]].token # 0
    /\ \A i, j \in 1..Len(users) : i # j => sess[users[i]].token # sess[users[j]].token

\* two sessions made by logins are registered next to the bot
C5_Witness ==
    /\ BotSess \in Range(users)
    /\ \E i, j \in 1..Len(users) : i # j /\ users[i] # BotSess /\ users[j] # BotSess

----------------------------------------------------------------------------
(* Spectating, on its own *)

InitSpectate == InitPlayers /\ task = [t \in Tasks |-> NoTask] /\ NoIO

NextSpectate ==
    \E u \in SessIds :
        \/ \E target_id \in Accts \cup {OfflineId} : StartSpectating(u, target_id)
        \/ StopSpectating(u)
        \/ Logout(u)
        \/ Poll(u)

SpecSpectate == InitSpectate /\ [][NextSpectate]_vars

\* C2: for every pair of sessions u and h, u.spectating is h exactly when u
\* is an element of h.spectators
C2_SpectatingIffSpectator ==
    \A u \in SessIds : \A h \in SessIds :
        (sess[u].spectating = h) <=> (u \in Range(sess[h].spectators))

\* a session is still spectating a host that has logged out
C2_Witness ==
    \E u \in SessIds : \E h \in SessIds :
        /\ u # h
        /\ sess[u].spectating = h
        /\ h \notin Range(users)

----------------------------------------------------------------------------
(* The multiplayer lobby and its matches: creating, joining and leaving *)

Passwords == {"", "pw"}

\* the slot statuses of the packet: the first slot's is the client's choice
SlotPatterns ==
    {[i \in SlotIdx |-> IF i = 0 THEN s ELSE OPEN] : s \in {OPEN, LOCKED, NOT_READY}}

\* what a client puts into the match packet of a create request
MatchPackets ==
    [password : {""},
     host_id : PlayerAccts \cup {OfflineId},
     mods : {NOMOD},
     freemod : {FALSE},
     map_id : {0},
     team_type : {HEAD_TO_HEAD},
     slot_teams : {[i \in SlotIdx |-> NEUTRAL]},
     slot_statuses : SlotPatterns]

InitMatch == PlayersOnline(TRUE) /\ task = [t \in Tasks |-> NoTask] /\ NoIO

NextMatch ==
    \E u \in SessIds :
        \/ \E pm \in MatchPackets : CreateMatch(u, pm)
        \/ CreateMatchResume(u)
        \/ \E i \in MatchIdx : \E pw \in Passwords : JoinMatch(u, i, pw)
        \/ JoinMatchResume(u)
        \/ LeaveMatch(u)
        \/ \E i \in 0..NumSlots : ChangeSlot(u, i)
        \/ \E i \in 0..NumSlots : LockMatch(u, i)
        \/ \E i \in 0..NumSlots : TransferHost(u, i)
        \/ JoinLobby(u)
        \/ ChannelJoin(u, LobbyName)
        \/ ChannelPart(u, LobbyName)
        \/ Poll(u)

SpecMatch == InitMatch /\ [][NextMatch]_vars

\* the registered matches no create request is still working on
Settled(k) ==
    /\ \E i \in MatchIdx : matches[i] = k
    /\ \A u \in SessIds : ~(pend[u].kind = "create" /\ pend[u].m = k)

\* C1: in every registered match, a slot holds a user exactly when its
\* status is one of the HAS_USER statuses
C1_SlotUserIffHasUser ==
    \A k \in MatchObjs : Settled(k) =>
        \A i \in SlotIdx :
            (mtch[k].slots[i].user # Null) <=> HasUser(mtch[k].slots[i].status)

\* C7: the host_id of every registered match is the id of a user seated in
\* one of its slots
C7_HostIsSeated ==
    \A k \in MatchObjs : Settled(k) =>
        \E i \in SlotIdx :
            /\ mtch[k].slots[i].user # Null
            /\ sess[mtch[k].slots[i].user].acct = mtch[k].host_id

\* the step in which leave_match takes u out of its slot of match k
Leaves(u, k) ==
    /\ sess[u].match = k
    /\ get_slot_id(mtch[k], u) # -1
    /\ mtch'[k].slots[get_slot_id(mtch[k], u)].user = Null

Got(v, op, x, y) ==
    \E n \in 1..Len(sess'[v].queue) :
        /\ sess'[v].queue[n].op = op
        /\ sess'[v].queue[n].x = x
        /\ sess'[v].queue[n].y = y

HostHandedOver(u, k) ==
    LET rest == Occupied(mtch[k]) \ {get_slot_id(mtch[k], u)}
        heir == mtch[k].slots[Least(rest)].user
    IN  /\ mtch'[k].host_id = sess[heir].acct
        /\ Got(heir, "match_transfer_host", 0, 0)
        /\ \A i \in rest :
            Got(mtch[k].slots[i].user, "update_match", mtch[k].id, sess[heir].acct)

\* C8: when the host leaves a match that has other occupants, host_id
\* becomes the id of the user in the lowest-indexed occupied slot, that user
\* is sent match_transfer_host, and every remaining member is sent
\* update_match carrying the new host_id
C8_HostLeaveTransfers ==
    [][\A u \in SessIds : \A k \in MatchObjs :
        (/\ Leaves(u, k)
         /\ mtch[k].host_id = sess[u].acct
         /\ Occupied(mtch[k]) # {get_slot_id(mtch[k], u)})
            => HostHandedOver(u, k)]_vars

LastLeaves(u, k) == Leaves(u, k) /\ Occupied(mtch[k]) = {get_slot_id(mtch[k], u)}

\* C9: when the last seated user leaves a match, its entry of
\* sessions.matches becomes null and every member of #lobby is sent
\* dispose_match with the match id
C9_EmptyMatchDisposed ==
    [][\A u \in SessIds : \A k \in MatchObjs :
        LastLeaves(u, k) =>
            /\ matches'[mtch[k].id] = Null
            /\ \A v \in Range(chan[LobbyChan].users) \ {u} :
                Got(v, "dispose_match", mtch[k].id, 0)]_vars

\* C10: when the last seated user has left a match, sessions.channels holds
\* no channel whose real_name is #multi_<id> of that match
C10_MultiChannelRemoved ==
    [][\A u \in SessIds : \A k \in MatchObjs :
        LastLeaves(u, k) =>
            \A n \in 1..Len(channels') :
                chan'[channels'[n]].real_name # MultiName(mtch[k].id)]_vars

\* C11: every match of sessions.matches that no create request is still
\* working on has a user in at least one of its slots
C11_NoEmptyRegisteredMatch ==
    \A k \in MatchObjs : Settled(k) => Occupied(mtch[k]) # {}

----------------------------------------------------------------------------
(* Channel membership: every way into and out of a channel *)

\* the create packet of a client that names itself host and leaves every
\* slot open
OwnPackets(u) ==
    {pm \in MatchPackets : pm.host_id = sess[u].acct /\ pm.slot_statuses[0] = OPEN}

\* requests of every kind that touches a channel; clients spectate before
\* the first match is created, and create matches while no spectator
\* channel exists
NextChannels ==
    \E u \in SessIds :
        \/ \E name \in {LobbyName, MultiName(0)} : ChannelJoin(u, name)
        \/ \E name \in {LobbyName, MultiName(0)} : ChannelPart(u, name)
        \/ \E pm \in OwnPackets(u) :
            /\ \A n \in 1..Len(channels) : channels[n][1] # "spec"
            /\ CreateMatch(u, pm)
        \/ CreateMatchResume(u)
        \/ \E i \in MatchIdx : JoinMatch(u, i, "")
        \/ JoinMatchResume(u)
        \/ LeaveMatch(u)
        \/ \E target_id \in PlayerAccts : nalloc.mtch = 0 /\ StartSpectating(u, target_id)
        \/ StopSpectating(u)
        \/ \E i \in MatchIdx : TourneyJoinChannel(u, i)
        \/ \E i \in MatchIdx : TourneyLeaveChannel(u, i)
        \/ Logout(u)
        \/ Poll(u)

SpecChannels == InitMatch /\ [][NextChannels]_vars

\* C12: for every channel c and every live session u, u is in c.users
\* exactly when c is in u.channels
C12_ChannelMembershipSymmetric ==
    \A c \in ChanIds : \A u \in SessIds :
        Live(u) => (u \in Range(chan[c].users) <=> c \in Range(sess[u].channels))

\* a tourney client sits in the chat of a match next to a seated player
C12_Witness ==
    \E k \in MatchObjs : \E u, v \in SessIds :
        /\ Settled(k) /\ Live(u) /\ Live(v) /\ u # v
        /\ sess[u].acct \in mtch[k].tourney_clients
        /\ sess[v].match = k
        /\ {u, v} \subseteq Range(chan[mtch[k].chat].users)
        /\ mtch[k].chat \in Range(sess[u].channels) \cap Range(sess[v].channels)

----------------------------------------------------------------------------
(* A round: readying up, starting and completing *)

NextRound ==
    \E u \in SessIds :
        \/ \E pm \in OwnPackets(u) : CreateMatch(u, pm)
        \/ CreateMatchResume(u)
        \/ \E i \in MatchIdx : JoinMatch(u, i, "")
        \/ JoinMatchResume(u)
        \/ LeaveMatch(u)
        \/ Ready(u)
        \/ NotReady(u)
        \/ MissingBeatmap(u)
        \/ StartMatch(u)
        \/ MatchComplete(u)
        \/ Poll(u)

SpecRound == InitSpectate /\ [][NextRound]_vars

\* what start_match leaves of match k, and in the queues, when the host u
\* sends it
Started(u, k) ==
    LET s == api_start_match(St, u)
        was == mtch[k].slots
        is == s.mtch[k].slots
        no_map == {was[i].user : i \in {j \in SlotIdx : was[j].status = NO_MAP}}
    IN  /\ \A i \in SlotIdx : is[i].status # READY
        /\ \A i \in SlotIdx : was[i].status = READY => is[i].status = PLAYING
        /\ \A i \in SlotIdx : was[i].status = NO_MAP => is[i].status = NO_MAP
        /\ s.mtch[k].in_progress
        /\ \A v \in Range(chan[mtch[k].chat].users) \ no_map :
            \E n \in (Len(sess[v].queue) + 1)..Len(s.sess[v].queue) :
                s.sess[v].queue[n].op = "match_start"

\* C13: when the host starts its match, no slot is left READY, every slot
\* that was READY is PLAYING, every NO_MAP slot keeps its status,
\* in_progress is true, and match_start is enqueued to every member of the
\* match chat but the users of the NO_MAP slots
C13_StartMatch ==
    [][\A u \in SessIds : \A k \in MatchObjs :
        (StartMatch(u) /\ sess[u].match = k /\ host(St, k) = u) => Started(u, k)]_vars

----------------------------------------------------------------------------
(* Freemod *)

PacketMods == {NOMOD, {DoubleTime, HardRock}}

NextMods ==
    \E u \in SessIds :
        \/ \E pm \in OwnPackets(u) : CreateMatch(u, pm)
        \/ CreateMatchResume(u)
        \/ \E i \in MatchIdx : JoinMatch(u, i, "")
        \/ JoinMatchResume(u)
        \/ LeaveMatch(u)
        \/ \E mods \in PacketMods : ChangeMatchMods(u, mods)
        \/ \E freemod \in BOOLEAN : \E map_id \in {-1, 1} :
                ChangeMatchSettings(u, freemod, map_id, HEAD_TO_HEAD)
        \/ Poll(u)

SpecMods == InitSpectate /\ [][NextMods]_vars

HostSeat(u, k) ==
    /\ sess[u].match = k /\ host(St, k) = u /\ get_host_slot(St, k) # -1

\* C14: when the host of a match whose mods are DoubleTime|HardRock enables
\* freemod, the match keeps DoubleTime only and the host's slot holds
\* HardRock; when the host then disables freemod, the match mods are
\* DoubleTime|HardRock again and every slot's mods are empty
C14_FreemodToggle ==
    [][\A u \in SessIds : \A k \in MatchObjs : \A map_id \in {-1, 1} :
        /\ ( /\ ChangeMatchSettings(u, TRUE, map_id, HEAD_TO_HEAD) /\ HostSeat(u, k)
             /\ ~mtch[k].freemod /\ mtch[k].mods = {DoubleTime, HardRock} )
           => /\ mtch'[k].mods = {DoubleTime}
              /\ mtch'[k].slots[get_host_slot(St, k)].mods = {HardRock}
        /\ ( /\ ChangeMatchSettings(u, FALSE, map_id, HEAD_TO_HEAD) /\ HostSeat(u, k)
             /\ mtch[k].freemod /\ mtch[k].mods = {DoubleTime}
             /\ mtch[k].slots[get_host_slot(St, k)].mods = {HardRock} )
           => /\ mtch'[k].mods = {DoubleTime, HardRock}
              /\ \A i \in SlotIdx : mtch'[k].slots[i].mods = NOMOD]_vars

----------------------------------------------------------------------------
(* The lobby *)

PasswordPackets(u) == {[pm EXCEPT !.password = pw] : pm \in OwnPackets(u), pw \in Passwords}

NextLobby ==
    \E u \in SessIds :
        \/ \E pm \in PasswordPackets(u) : CreateMatch(u, pm)
        \/ CreateMatchResume(u)
        \/ \E i \in MatchIdx : \E pw \in Passwords : JoinMatch(u, i, pw)
        \/ JoinMatchResume(u)
        \/ LeaveMatch(u)
        \/ Ready(u)
        \/ JoinLobby(u)
        \/ ChannelJoin(u, LobbyName)
        \/ ChannelPart(u, LobbyName)
        \/ Poll(u)

SpecLobby == InitSpectate /\ [][NextLobby]_vars

\* the queue of v in st holds the description of a match v has no seat in,
\* with the match's password in it
Leaked(st, v) ==
    \E n \in 1..Len(st.sess[v].queue) : \E k \in MatchObjs :
        LET p == st.sess[v].queue[n]
        IN  /\ p.op \in {"new_match", "update_match"}
            /\ \E i \in MatchIdx : st.matches[i] = k /\ st.mtch[k].id = p.x
            /\ st.mtch[k].password # "" /\ p.s = st.mtch[k].password
            /\ st.sess[v].match # k /\ get_slot_id(st.mtch[k], v) = -1

\* C15: no description of a match that carries the match's password is
\* enqueued to a session without a seat in the match: neither to the members
\* of #lobby on a rebroadcast nor to the user who opens the lobby
C15_NoPasswordToLobby ==
    [][\A u \in SessIds :
        /\ JoinLobby(u) => ~Leaked(api_join_lobby(St, u), u)
        /\ Live(u) /\ get_by_name(St, LobbyName) \in Range(sess'[u].channels)
              => ~Leaked([St EXCEPT !.sess = sess', !.matches = matches', !.mtch = mtch'], u)]_vars

----------------------------------------------------------------------------
(* Chat *)

SilenceEnds == {0, TickStep + 1}

Contents == {" ", "hi", " hi "}

Recipients ==
    {<<"#highlight", 0>>, <<"#spectator", 0>>, <<"#multiplayer", 0>>, LobbyName, MultiName(0)}

\* the players online, with the silence, the blocks and the friends their
\* documents of the users collection hold
InitChat ==
    /\ InitRegistries
    /\ NoIO
    /\ task = [t \in Tasks |-> NoTask]
    /\ users = [i \in 1..(NumPlayers + 1) |-> i]
    /\ db = [a \in Accts |-> IF a = BotId THEN 0 ELSE TickStep]
    /\ now = TickStep
    /\ nalloc = [mtch |-> 0]
    /\ \E silence_end \in [PlayerAccts -> SilenceEnds] :
       \E blocked \in [PlayerAccts -> SUBSET PlayerAccts] :
       \E friends \in [PlayerAccts -> SUBSET PlayerAccts] :
            /\ \A a \in PlayerAccts : a \notin blocked[a] \cup friends[a]
            /\ \E owner \in PlayerAccts :
                  \A a \in PlayerAccts \ {owner} : blocked[a] \cup friends[a] = {}
            /\ sess = [s \in SessIds |->
                        IF s = BotSess THEN Bot
                        ELSE IF s \in PlayerAccts
                        THEN [Session(s, Spelling(s, 0), s, 0) EXCEPT
                                !.latest_activity = TickStep,
                                !.in_lobby = TRUE,
                                !.silence_end = silence_end[s],
                                !.blocked = blocked[s],
                                !.friends = friends[s]]
                        ELSE NoUser]

\* the users are in one of #lobby, a #spectator channel and a match chat at
\* a time, and change their settings before they enter it
Elsewhere(kinds) ==
    /\ "multi" \in kinds => nalloc.mtch = 0
    /\ "spec" \in kinds => \A n \in 1..Len(channels) : channels[n][1] # "spec"
    /\ "lobby" \in kinds => chan[LobbyChan].users = <<>>
    /\ "dms" \in kinds => \A v \in SessIds : ~sess[v].friend_only_dms

NextChat ==
    \/ \E u \in SessIds :
        \/ Elsewhere({"multi", "spec", "dms"}) /\ ChannelJoin(u, LobbyName)
        \/ \E target_id \in PlayerAccts :
                Elsewhere({"multi", "lobby", "dms"}) /\ StartSpectating(u, target_id)
        \/ \E pm \in OwnPackets(u) :
                Elsewhere({"spec", "lobby", "dms"}) /\ CreateMatch(u, pm)
        \/ CreateMatchResume(u)
        \/ \E frac \in Fractions : \E content \in Contents : \E recipient \in Recipients :
                SendPublicMessage(u, frac, content, recipient)
        \/ \E frac \in Fractions : \E content \in Contents :
           \E target_name \in {Spelling(a, 0) : a \in Accts \cup {OfflineId}} :
                PrivateMessage(u, frac, content, target_name)
        \/ \E value \in {0, 1} :
                Elsewhere({"multi", "spec", "lobby"}) /\ ToggleDMs(u, value)
        \/ Poll(u)
    \/ Tick

SpecChat == InitChat /\ [][NextChat]_vars

\* the send_message packets in the queue of v
Messages(st, v) == {n \in 1..Len(st.sess[v].queue) : st.sess[v].queue[n].op = "send_message"}

\* silence_end > time.time(), at now + frac / 2 seconds
Unexpired(u, frac) == 2 * sess[u].silence_end > 2 * now + frac

\* C16: while the silence of a user has not expired, a public or private
\* message packet of that user adds no send_message packet to any queue
C16_SilencedSendsNothing ==
    [][\A u \in SessIds : \A frac \in Fractions : \A content \in Contents :
        /\ \A recipient \in Recipients :
            SendPublicMessage(u, frac, content, recipient) /\ Unexpired(u, frac)
                => \A v \in SessIds :
                     Messages(api_send_public_message(St, u, frac, content, recipient), v)
                        = Messages(St, v)
        /\ \A a \in Accts :
            PrivateMessage(u, frac, content, Spelling(a, 0)) /\ Unexpired(u, frac)
                => \A v \in SessIds :
                     Messages(api_private_message(St, u, frac, content, Spelling(a, 0)), v)
                        = Messages(St, v)]_vars

\* the sender of a private message is refused: the queue of the recipient is
\* as it was and the last packet of the sender's queue is a notice with the
\* recipient's name
Refused(st, u, target, target_name, ops) ==
    /\ st.sess[target].queue = sess[target].queue
    /\ Len(st.sess[u].queue) = Len(sess[u].queue) + 1
    /\ st.sess[u].queue[Len(st.sess[u].queue)].op \in ops
    /\ st.sess[u].queue[Len(st.sess[u].queue)].y = target_name

\* C17: a private message with text, from a sender whose silence is over to
\* another user, is refused when the sender is in the recipient's blocked
\* list, when the recipient has friend_only_dms set and the sender is not
\* among the recipient's friends (with CHO_USER_DM_BLOCKED), and when the
\* recipient's silence has not expired
C17_PrivateMessageRefused ==
    [][\A u \in SessIds : \A frac \in Fractions : \A content \in Contents : \A a \in Accts :
        LET target_name == Spelling(a, 0)
            target == fetch_name(St, target_name)
            st == api_private_message(St, u, frac, content, target_name)
            block == sess[u].acct \in sess[target].blocked
            friend_only == sess[target].friend_only_dms /\ sess[u].acct \notin sess[target].friends
        IN  ( /\ PrivateMessage(u, frac, content, target_name)
              /\ ~Unexpired(u, frac) /\ strip(content) # ""
              /\ target # Null /\ target # u )
            => /\ block \/ Unexpired(target, frac)
                    => Refused(st, u, target, target_name, {"user_dm_blocked", "target_silenced"})
               /\ friend_only => Refused(st, u, target, target_name, {"user_dm_blocked"})]_vars

----------------------------------------------------------------------------
(* The write queue *)

NextQueue ==
    \E u \in SessIds :
        \/ \E target_id \in PlayerAccts : StartSpectating(u, target_id)
        \/ StopSpectating(u)
        \/ \E pm \in OwnPackets(u) : CreateMatch(u, pm)
        \/ CreateMatchResume(u)
        \/ \E i \in MatchIdx : Elsewhere({"spec"}) /\ JoinMatch(u, i, "")
        \/ JoinMatchResume(u)
        \/ Elsewhere({"spec"}) /\ LeaveMatch(u)
        \/ Logout(u)
        \/ Poll(u)

SpecQueue == InitSpectate /\ [][NextQueue]_vars

IsPrefix(s, t) == Len(s) <= Len(t) /\ SubSeq(t, 1, Len(s)) = s

\* User.dequeue: the bytes the response of u carries after the handlers
\* left st
response_body(st, u) == update_activity(st, u).sess[u].queue

\* the request of u ends in this step, st being what its handlers left: the
\* response starts with what the queue held before and the queue is drained
Drained(st, u) ==
    ~st.raised => IsPrefix(sess[u].queue, response_body(st, u)) /\ sess'[u].queue = <<>>

\* this step ends a request of u
Responds(u) ==
    \/ Poll(u) \/ StopSpectating(u) \/ LeaveMatch(u) \/ Logout(u)
    \/ \E target_id \in PlayerAccts : StartSpectating(u, target_id)
    \/ CreateMatchResume(u) \/ JoinMatchResume(u)

\* C18: the queue of a live session only grows at its end until a response
\* of that session drains it; the response carries the whole queue, what was
\* enqueued while the request was suspended included, in enqueue order, and
\* leaves the queue empty
C18_QueueDeliveredInOrder ==
    [][\A u \in SessIds : Live(u) =>
        /\ Responds(u) \/ IsPrefix(sess[u].queue, sess'[u].queue)
        /\ Poll(u) => Drained(St, u)
        /\ StopSpectating(u) => Drained(api_stop_spectating(St, u), u)
        /\ LeaveMatch(u) => Drained(api_leave_match(St, u), u)
        /\ Logout(u) => Drained(api_logout(St, u), u)
        /\ \A target_id \in PlayerAccts :
            StartSpectating(u, target_id) => Drained(api_start_spectating(St, u, target_id), u)
        /\ CreateMatchResume(u) => Drained(create_match_end(St, u, pend[u].m), u)
        /\ JoinMatchResume(u)
            => Drained(join_match(update_activity(St, u), u, pend[u].m, pend[u].pw), u)]_vars

\* a request enqueued to a session whose own request is suspended
C18_Witness ==
    \E u \in SessIds :
        /\ Live(u) /\ pend[u].kind = "create"
        /\ \E n \in 1..Len(sess[u].queue) : sess[u].queue[n].op = "host_spectator_joined"

----------------------------------------------------------------------------
(* Request bodies: frames, PacketArray and the dispatch of bancho_handler *)

OSU_LOGOUT == 2

OSU_REQUEST_STATUS_UPDATE == 3

OSU_PING == 4

OSU_START_SPECTATING == 16

OSU_STOP_SPECTATING == 17

\* an id of no packet
UnknownId == 300

\* app.state.PACKETS and RESTRICTED_PACKETS as register_packet fills them:
\* the ids of the handlers modelled here (OSU_PING has no handler)
PACKETS ==
    {OSU_LOGOUT, OSU_REQUEST_STATUS_UPDATE, OSU_START_SPECTATING, OSU_STOP_SPECTATING}

RESTRICTED_PACKETS == {OSU_LOGOUT, OSU_REQUEST_STATUS_UPDATE}

\* struct.pack little-endian, n bytes
RECURSIVE write_int(_, _)
write_int(value, n) ==
    IF n = 0 THEN <<>> ELSE <<value % 256>> \o write_int(value \div 256, n - 1)

\* int.from_bytes(data, "little", signed=signed): with signed the top bit of
\* the last byte is the sign
RECURSIVE read_int(_, _)
read_int(data, signed) ==
    IF data = <<>> THEN 0
    ELSE IF Len(data) = 1
    THEN (IF signed /\ Head(data) >= 128 THEN Head(data) - 256 ELSE Head(data))
    ELSE Head(data) + 256 * read_int(Tail(data), signed)

\* Python slices data[:count] and data[count:]
Take(data, count) == SubSeq(data, 1, IF count < Len(data) THEN count ELSE Len(data))

Drop(data, count) == SubSeq(data, count + 1, Len(data))

\* a frame on the wire: id (2 bytes), a padding byte, length (4 bytes), payload
Packet_serialise(packet_id, data) ==
    write_int(packet_id, 2) \o <<0>> \o write_int(Len(data), 4) \o data

\* struct.unpack("<HxI", data[:7])
parse_header(data) ==
    [packet_id |-> read_int(SubSeq(data, 1, 2), FALSE),
     length |-> read_int(SubSeq(data, 4, 7), FALSE)]

\* Packet.from_data: the header is read off the frame, data keeps the payload
Packet_from_data(data) ==
    [packet_id |-> parse_header(data).packet_id, length |-> parse_header(data).length,
     data |-> Drop(data, 7)]

\* PacketArray._split_data; fewer than 7 bytes left make struct.unpack raise
RECURSIVE split_data(_, _, _)
split_data(data, packet_map, packets) ==
    IF data = <<>> THEN [packets |-> packets, raised |-> FALSE]
    ELSE IF Len(data) < 7 THEN [packets |-> packets, raised |-> TRUE]
    ELSE LET length == parse_header(data).length
         IN  IF parse_header(data).packet_id \notin packet_map
             THEN split_data(Drop(data, 7 + length), packet_map, packets)
             ELSE split_data(Drop(data, 7 + length), packet_map,
                             Append(packets, Packet_from_data(Take(data, 7 + length))))

PacketArray(data, packet_map) == split_data(data, packet_map, <<>>)

api_request_status_update(st, u) == enqueue(st, u, Pkt("user_stats", st.sess[u].acct, 0, ""))

\* the wrapper of register_packet: read the structure off the packet, then
\* the handler
wrapper(st, u, packet) ==
    CASE packet.packet_id = OSU_LOGOUT -> api_logout(st, u)
      [] packet.packet_id = OSU_REQUEST_STATUS_UPDATE -> api_request_status_update(st, u)
      [] packet.packet_id = OSU_START_SPECTATING ->
            api_start_spectating(st, u, read_int(Take(packet.data, 4), TRUE))
      [] packet.packet_id = OSU_STOP_SPECTATING -> api_stop_spectating(st, u)

\* the frames a client sends: the payload of the unknown frame reads as a
\* logout frame of its own
Frames ==
    {[packet_id |-> OSU_LOGOUT, data |-> <<>>],
     [packet_id |-> OSU_REQUEST_STATUS_UPDATE, data |-> <<>>],
     [packet_id |-> OSU_PING, data |-> <<>>],
     [packet_id |-> OSU_STOP_SPECTATING, data |-> <<>>],
     [packet_id |-> UnknownId, data |-> Packet_serialise(OSU_LOGOUT, <<>>)]}
    \cup {[packet_id |-> OSU_START_SPECTATING, data |-> write_int(target_id, 4)] :
            target_id \in {0, NumPlayers + 1}}

MaxFrames == 2

Bodies == UNION {[1..n -> Frames] : n \in 1..MaxFrames}

RECURSIVE body_of(_)
body_of(frames) ==
    IF frames = <<>> THEN <<>>
    ELSE Packet_serialise(Head(frames).packet_id, Head(frames).data) \o body_of(Tail(frames))

\* bancho_handler with a token: the session is fetched, the table selected
\* and the body split
Request(u, frames) ==
    /\ req.pc \in {"none", "done", "failed"}
    /\ CanRequest(u)
    /\ LET packet_map == IF restricted(St, u) THEN RESTRICTED_PACKETS ELSE PACKETS
           array == PacketArray(body_of(frames), packet_map)
       IN  req' = [pc |-> IF array.raised THEN "failed" ELSE "handlers", u |-> u,
                   frames |-> frames, data |-> body_of(frames), packet_map |-> packet_map,
                   packets |-> array.packets, handled |-> <<>>]
    /\ UNCHANGED <<users, channels, matches, sess, chan, mtch, db, now, lock, task, pend,
                   nalloc, wire>>

\* await handler(packet, user): an exception of the handler ends the request
Handle ==
    /\ req.pc = "handlers" /\ req.packets # <<>>
    /\ LET st == wrapper(St, req.u, Head(req.packets))
       IN  /\ Commit(IF st.raised THEN reclaim(st, pend) ELSE st)
           /\ req' = [req EXCEPT !.pc = IF st.raised THEN "failed" ELSE @,
                                 !.packets = Tail(@),
                                 !.handled = Append(@, Head(req.packets))]
    /\ UNCHANGED <<now, lock, task, pend, wire>>

\* after the last handler: update_activity and the response
Finish ==
    /\ req.pc = "handlers" /\ req.packets = <<>>
    /\ Commit(reclaim(bancho_handler(St, req.u), pend))
    /\ req' = [req EXCEPT !.pc = "done"]
    /\ UNCHANGED <<now, lock, task, pend, wire>>

\* the players are online; one of them may be restricted
InitFrames ==
    /\ InitRegistries
    /\ users = [i \in 1..(NumPlayers + 1) |-> i]
    /\ \E r \in PlayerAccts \cup {Null} :
        sess = [s \in SessIds |->
                    IF s = BotSess THEN Bot
                    ELSE IF s \in PlayerAccts
                    THEN [Session(s, Spelling(s, 0), s, 0) EXCEPT
                            !.latest_activity = TickStep,
                            !.priv = IF s = r THEN {"RESTRICTED"} ELSE @]
                    ELSE NoUser]
    /\ db = [a \in Accts |-> IF a = BotId THEN 0 ELSE TickStep]
    /\ now = TickStep
    /\ nalloc = [mtch |-> 0]
    /\ task = [t \in Tasks |-> NoTask]
    /\ NoIO

NextFrames ==
    \/ \E u \in SessIds : \E frames \in Bodies : Request(u, frames)
    \/ Handle
    \/ Finish

SpecFrames == InitFrames /\ [][NextFrames]_vars

\* the frames of the body whose id is in the table selected, in body order
InTable(frames, packet_map) == SelectSeq(frames, LAMBDA f : f.packet_id \in packet_map)

Sent(packets) ==
    [i \in 1..Len(packets) |-> [packet_id |-> packets[i].packet_id, data |-> packets[i].data]]

\* the splitting alone: the packets handed to the dispatch loop are the
\* frames of the table, in order, whatever unknown frames lie between them
SplitExact ==
    req.pc # "none"
        => /\ ~PacketArray(req.data, req.packet_map).raised
           /\ Sent(PacketArray(req.data, req.packet_map).packets)
                = InTable(req.frames, req.packet_map)

\* C19: when the request is over, the handlers invoked are exactly those of
\* the frames whose id is in the table selected for the session, in the
\* order of the body; frames with an unknown id are skipped whole
C19_FramesDispatched ==
    req.pc \in {"done", "failed"} => Sent(req.handled) = InTable(req.frames, req.packet_map)

----------------------------------------------------------------------------
(* The match on the wire: write_match, OsuMatch.serialise and OsuMatch.read *)

\* Mods is an IntFlag: a combination is written as the sum of its bits
ModBit(mod) ==
    CASE mod = HardRock -> 16
      [] mod = DoubleTime -> 64
      [] mod = "HalfTime" -> 256
      [] mod = "Nightcore" -> 512

ModNames == {HardRock} \cup SPEED_MODS

RECURSIVE Mods_value(_)
Mods_value(mods) ==
    IF mods = {} THEN 0
    ELSE LET mod == CHOOSE x \in mods : TRUE
         IN  ModBit(mod) + Mods_value(mods \ {mod})

\* Mods(value)
Mods_of(value) == {mod \in ModNames : BitAnd(value, ModBit(mod)) # 0}

\* str.encode and bytes.decode for the strings of the model
encode(string) == IF string = "pw" THEN <<112, 119>> ELSE <<>>

decode(data) == IF data = <<112, 119>> THEN "pw" ELSE IF data = <<>> THEN "" ELSE "?"

\* the length of a string, 7 bits a byte, the top bit telling that more follow
RECURSIVE uleb128(_)
uleb128(val) ==
    IF val \div 128 # 0 THEN <<(val % 128) + 128>> \o uleb128(val \div 128)
    ELSE <<val % 128>>

String_write(string) ==
    IF Len(encode(string)) = 0 THEN <<0>>
    ELSE <<11>> \o uleb128(Len(encode(string))) \o encode(string)

\* packet.read(1) off an exhausted packet is empty and reads as 0
u8_read(data) == IF data = <<>> THEN 0 ELSE Head(data)

RECURSIVE read_uleb128(_)
read_uleb128(data) ==
    IF u8_read(data) < 128 THEN [value |-> u8_read(data), rest |-> Drop(data, 1)]
    ELSE [value |-> (u8_read(data) - 128) + 128 * read_uleb128(Drop(data, 1)).value,
          rest |-> read_uleb128(Drop(data, 1)).rest]

String_read(data) ==
    IF u8_read(data) # 11 THEN [value |-> "", rest |-> Drop(data, 1)]
    ELSE [value |-> decode(Take(read_uleb128(Drop(data, 1)).rest,
                                read_uleb128(Drop(data, 1)).value)),
          rest |-> Drop(read_uleb128(Drop(data, 1)).rest,
                        read_uleb128(Drop(data, 1)).value)]

\* [slot.user.id for slot in match.slots if slot.user]
RECURSIVE seated_ids(_, _, _)
seated_ids(st, m, i) ==
    IF i = NumSlots THEN <<>>
    ELSE (IF m.slots[i].user # Null THEN <<st.sess[m.slots[i].user].acct>> ELSE <<>>)
            \o seated_ids(st, m, i + 1)

\* the OsuMatch of a match; lists are indexed from 1 here, slot i is entry
\* i + 1.  The fields Match does not have in the model (name, map name and
\* md5, teams, mode, win condition, team type, seed) are empty or zero.
write_match(st, m) ==
    [id |-> m.id, in_progress |-> m.in_progress, mods |-> m.mods,
     password |-> m.password, map_id |-> m.map_id,
     slot_ids |-> seated_ids(st, m, 0), freemod |-> m.freemod,
     slot_statuses |-> [i \in 1..NumSlots |-> m.slots[i - 1].status],
     slot_mods |-> [i \in 1..NumSlots |-> m.slots[i - 1].mods],
     host_id |-> m.host_id]

Flag(b) == IF b THEN 1 ELSE 0

RECURSIVE write_each(_, _)
write_each(values, n) ==
    IF values = <<>> THEN <<>> ELSE write_int(Head(values), n) \o write_each(Tail(values), n)

\* serialise up to the slot teams
serialise_head(osu_match, send_pw) ==
    write_int(osu_match.id, 2) \o <<Flag(osu_match.in_progress), 0>>
    \o write_int(Mods_value(osu_match.mods), 4)
    \o String_write("")
    \o (IF osu_match.password # ""
        THEN (IF send_pw THEN String_write(osu_match.password) ELSE <<11, 0>>)
        ELSE <<0>>)
    \o String_write("") \o write_int(osu_match.map_id, 4) \o String_write("")
    \o write_each(osu_match.slot_statuses, 1)
    \o [i \in 1..NumSlots |-> 0]

\* the loop over enumerate(slot_statuses): slot_ids[idx] for every status
\* that has a user; an index past the end of slot_ids raises IndexError
RECURSIVE serialise_ids(_, _)
serialise_ids(osu_match, idx) ==
    IF idx = NumSlots THEN [data |-> <<>>, raised |-> FALSE]
    ELSE IF ~HasUser(osu_match.slot_statuses[idx + 1]) THEN serialise_ids(osu_match, idx + 1)
    ELSE IF idx >= Len(osu_match.slot_ids) THEN [data |-> <<>>, raised |-> TRUE]
    ELSE [data |-> write_int(osu_match.slot_ids[idx + 1], 4)
                    \o serialise_ids(osu_match, idx + 1).data,
          raised |-> serialise_ids(osu_match, idx + 1).raised]

\* serialise from the host id on
serialise_tail(osu_match) ==
    write_int(osu_match.host_id, 4) \o <<0, 0, 0, Flag(osu_match.freemod)>>
    \o (IF osu_match.freemod
        THEN write_each([i \in 1..NumSlots |-> Mods_value(osu_match.slot_mods[i])], 4)
        ELSE <<>>)
    \o write_int(0, 4)

serialise(osu_match, send_pw) ==
    IF serialise_ids(osu_match, 0).raised THEN [data |-> <<>>, raised |-> TRUE]
    ELSE [data |-> serialise_head(osu_match, send_pw) \o serialise_ids(osu_match, 0).data
                    \o serialise_tail(osu_match),
          raised |-> FALSE]

\* OsuMatch.read, from its end to its start: each step reads its fields off
\* data and hands the rest on
read_freemod(data, osu_match) ==
    LET freemod == read_int(Take(data, 1), TRUE) = 1
    IN  [osu_match EXCEPT
            !.freemod = freemod,
            !.slot_mods = IF freemod
                          THEN [i \in 1..NumSlots |->
                                    Mods_of(read_int(SubSeq(data, 4 * i - 2, 4 * i + 1), TRUE))]
                          ELSE <<>>]

read_host(data, osu_match) ==
    read_freemod(Drop(data, 7), [osu_match EXCEPT !.host_id = read_int(Take(data, 4), TRUE)])

RECURSIVE read_ids(_, _, _)
read_ids(data, osu_match, idx) ==
    IF idx = NumSlots THEN read_host(data, osu_match)
    ELSE IF HasUser(osu_match.slot_statuses[idx + 1])
    THEN read_ids(Drop(data, 4),
                  [osu_match EXCEPT !.slot_ids = Append(@, read_int(Take(data, 4), TRUE))],
                  idx + 1)
    ELSE read_ids(data, osu_match, idx + 1)

read_statuses(data, osu_match) ==
    read_ids(Drop(data, 2 * NumSlots),
             [osu_match EXCEPT
                !.slot_statuses = [i \in 1..NumSlots |-> read_int(SubSeq(data, i, i), TRUE)]],
             0)

read_map_md5(data, osu_match) == read_statuses(String_read(data).rest, osu_match)

read_map_id(data, osu_match) ==
    read_map_md5(Drop(data, 4), [osu_match EXCEPT !.map_id = read_int(Take(data, 4), TRUE)])

read_map_name(data, osu_match) == read_map_id(String_read(data).rest, osu_match)

read_password(data, osu_match) ==
    read_map_name(String_read(data).rest,
                  [osu_match EXCEPT !.password = String_read(data).value])

read_name(data, osu_match) == read_password(String_read(data).rest, osu_match)

read(data) ==
    read_name(Drop(data, 8),
              [id |-> read_int(Take(data, 2), TRUE),
               in_progress |-> read_int(SubSeq(data, 3, 3), TRUE) = 1,
               mods |-> Mods_of(read_int(SubSeq(data, 5, 8), TRUE)),
               password |-> "", map_id |-> 0, slot_ids |-> <<>>, freemod |-> FALSE,
               slot_statuses |-> <<>>, slot_mods |-> <<>>, host_id |-> 0])

\* the encoder run on the match, the password included
Encode ==
    /\ wire.pc = "input"
    /\ LET osu_match == write_match(St, wire.match)
       IN  wire' = [wire EXCEPT
                        !.pc = IF serialise(osu_match, TRUE).raised THEN "failed" ELSE "encoded",
                        !.ids = osu_match.slot_ids,
                        !.data = serialise(osu_match, TRUE).data]
    /\ UNCHANGED <<users, channels, matches, sess, chan, mtch, db, now, lock, task, pend,
                   nalloc, req>>

\* the decoder run on what the encoder wrote
Decode ==
    /\ wire.pc = "encoded"
    /\ wire' = [wire EXCEPT !.pc = "decoded", !.read = <<read(wire.data)>>]
    /\ UNCHANGED <<users, channels, matches, sess, chan, mtch, db, now, lock, task, pend,
                   nalloc, req>>

\* a slot as a match can hold it: without a user it is open or locked, and
\* slot mods are set under freemod only
Seats(freemod) ==
    {[Slot EXCEPT !.status = status] : status \in {OPEN, LOCKED}}
    \cup {[Slot EXCEPT !.user = u, !.status = status, !.mods = mods] :
            u \in PlayerAccts, status \in {NOT_READY, READY},
            mods \in IF freemod THEN {NOMOD, {HardRock}} ELSE {NOMOD}}

\* the matches the encoder is given: every occupancy pattern of the slots,
\* at least one player seated and one of the seated the host
CodecMatches ==
    {m \in UNION {[id : {0}, host_id : PlayerAccts, password : Passwords,
                   in_progress : {FALSE}, mods : {NOMOD, {DoubleTime}}, freemod : {freemod},
                   map_id : {0}, last_map_id : {0}, chat : {NoChan},
                   team_type : {HEAD_TO_HEAD},
                   slots : [SlotIdx -> Seats(freemod)], tourney_clients : {{}}] :
                  freemod \in BOOLEAN} :
        /\ \E i \in SlotIdx : m.slots[i].user # Null /\ sess[m.slots[i].user].acct = m.host_id
        /\ \A i, j \in SlotIdx :
            i # j /\ m.slots[i].user # Null => m.slots[i].user # m.slots[j].user}

InitCodec ==
    /\ PlayersOnline(TRUE)
    /\ task = [t \in Tasks |-> NoTask]
    /\ req = NoRequest
    /\ \E m \in CodecMatches : wire = [NoWire EXCEPT !.pc = "input", !.match = m]

NextCodec == Encode \/ Decode

SpecCodec == InitCodec /\ [][NextCodec]_vars

\* the place of slot i among the slots whose status has a user
Rank(m, i) == Cardinality({j \in SlotIdx : j <= i /\ HasUser(m.slots[j].status)})

\* the decoded OsuMatch says what the match says: slot by slot the status,
\* the id of the user seated there and, under freemod, the slot's mods
SameMatch(osu_match, m) ==
    /\ osu_match.id = m.id /\ osu_match.in_progress = m.in_progress
    /\ osu_match.mods = m.mods /\ osu_match.password = m.password
    /\ osu_match.map_id = m.map_id /\ osu_match.host_id = m.host_id
    /\ osu_match.freemod = m.freemod
    /\ \A i \in SlotIdx :
        /\ osu_match.slot_statuses[i + 1] = m.slots[i].status
        /\ HasUser(m.slots[i].status)
            => /\ Rank(m, i) <= Len(osu_match.slot_ids)
               /\ osu_match.slot_ids[Rank(m, i)] = sess[m.slots[i].user].acct
        /\ m.freemod => osu_match.slot_mods[i + 1] = m.slots[i].mods

\* where the encoder does answer, the round trip restores the match
RoundTripWhereEncoded == wire.pc = "decoded" => SameMatch(wire.read[1], wire.match)

\* C20: a match encoded with its password and decoded again is the original
\* match, for every occupancy pattern of the slots: the encoder writes the
\* id of the user seated in each slot that has one, in slot order
C20_MatchRoundTrip ==
    wire.pc \in {"failed", "decoded"}
        => wire.pc = "decoded" /\ SameMatch(wire.read[1], wire.match)

----------------------------------------------------------------------------
(* Creating and joining a match *)

\* C22: a create-match request of a user who is not silenced and in no match,
\* with a free index in sessions.matches, puts the new match at the lowest
\* free index, seats the creator in slot 0 with status NOT_READY, makes the
\* creator the host and points the creator's match reference at the match,
\* whatever host id and slot statuses the client's packet carried
C22_CreatorSeatedAsHost ==
    [][\A u \in SessIds :
        /\ (pend[u].kind = "none" /\ pend'[u].kind = "create")
            => matches'[MatchList_get_free(St)] = pend'[u].m
        /\ (pend[u].kind = "create" /\ pend'[u].kind = "none" /\ sess[u].match = Null)
            => /\ mtch'[pend[u].m].slots[0].user = u
               /\ mtch'[pend[u].m].slots[0].status = NOT_READY
               /\ mtch'[pend[u].m].host_id = sess[u].acct
               /\ sess'[u].match = pend[u].m]_vars

\* C23: a join-match request for an index that holds no match is dropped:
\* the user gets match_join_fail, the handler ends normally (so that the
\* frames after it are processed and the request is answered), and no match,
\* slot, channel or user state changes
C23_JoinMissingMatchDropped ==
    [][\A u \in SessIds :
        (pend[u].kind = "join" /\ pend[u].m = Null /\ pend'[u].kind = "none")
            => /\ ~join_match(update_activity(St, u), u, pend[u].m, pend[u].pw).raised
               /\ mtch' = mtch /\ matches' = matches /\ chan' = chan /\ channels' = channels
               /\ users' = users
               /\ \A v \in SessIds :
                    /\ sess'[v].match = sess[v].match
                    /\ sess'[v].channels = sess[v].channels]_vars

----------------------------------------------------------------------------
(* Slots: moving and locking *)

\* what a change-slot request of u for slot_id leaves of the slots of u's
\* match
Moved(u, slot_id) == api_change_match_slot(St, u, slot_id).mtch[sess[u].match].slots

\* C24: a change-slot request of a seated user for an OPEN slot moves the
\* user: the target slot then holds the user with the source slot's status,
\* team and mods, and the source slot is empty and OPEN; a request for a slot
\* that is not OPEN, or for an index outside the slots, changes no slot
C24_ChangeSlotMoves ==
    \A u \in SessIds : \A slot_id \in 0..NumSlots :
        (CanRequest(u) /\ sess[u].match # Null /\ get_slot_id(mtch[sess[u].match], u) # -1)
        => LET k == sess[u].match
               from == get_slot_id(mtch[k], u)
           IN  IF slot_id \in SlotIdx /\ mtch[k].slots[slot_id].status = OPEN
               THEN /\ Moved(u, slot_id)[slot_id].user = u
                    /\ Moved(u, slot_id)[slot_id].status = mtch[k].slots[from].status
                    /\ Moved(u, slot_id)[slot_id].team = mtch[k].slots[from].team
                    /\ Moved(u, slot_id)[slot_id].mods = mtch[k].slots[from].mods
                    /\ Moved(u, slot_id)[from].user = Null
                    /\ Moved(u, slot_id)[from].status = OPEN
               ELSE Moved(u, slot_id) = mtch[k].slots

\* what a lock request of u for slot_id leaves of the slots of u's match
Locked(u, slot_id) == api_lock_match(St, u, slot_id).mtch[sess[u].match].slots

\* C25: a lock request changes slots only when the host sends it for a slot
\* of the match, and then only that slot and only between LOCKED and OPEN: a
\* LOCKED slot becomes OPEN, an OPEN slot LOCKED; the slot holding the host
\* is never changed, and a slot occupied by another player does not end up
\* LOCKED with the player still seated in it
C25_LockTogglesOpenLocked ==
    \A u \in SessIds : \A slot_id \in 0..NumSlots :
        (CanRequest(u) /\ sess[u].match # Null)
        => LET k == sess[u].match
               was == mtch[k].slots
               is == Locked(u, slot_id)
           IN  /\ \A i \in SlotIdx :
                    is[i] # was[i]
                    => /\ u = host(St, k) /\ i = slot_id
                       /\ was[i].user # u
                       /\ \/ was[i].status = LOCKED /\ is[i] = [was[i] EXCEPT !.status = OPEN]
                          \/ was[i].status = OPEN /\ is[i] = [was[i] EXCEPT !.status = LOCKED]
               /\ (u = host(St, k) /\ slot_id \in SlotIdx /\ was[slot_id].user # u)
                    => /\ was[slot_id].status = LOCKED => is[slot_id].status = OPEN
                       /\ was[slot_id].status = OPEN => is[slot_id].status = LOCKED
                       /\ ~(is[slot_id].status = LOCKED /\ is[slot_id].user # Null)

----------------------------------------------------------------------------
(* Match settings: the beatmap and the teams *)

\* what a settings change of the host u that carries map_id, and the match's
\* own freemod and team type, leaves of the match
Selected(u, map_id) ==
    api_change_match_settings(St, u, mtch[sess[u].match].freemod, map_id,
                              mtch[sess[u].match].team_type).mtch[sess[u].match]

\* C26: after the host's settings change with a map id other than -1 the
\* match has the map of the request, whatever map it had before; a settings
\* change with -1 clears the map, remembers the previous id in last_map_id
\* and returns every READY slot to NOT_READY
C26_MapSelected ==
    \A u \in SessIds : \A map_id \in {-1, 1} :
        (CanRequest(u) /\ sess[u].match # Null /\ u = host(St, sess[u].match))
        => LET m == mtch[sess[u].match]
           IN  IF map_id # -1 THEN Selected(u, map_id).map_id = map_id
               ELSE /\ Selected(u, map_id).map_id = -1
                    /\ Selected(u, map_id).last_map_id = m.map_id
                    /\ \A i \in SlotIdx :
                        Selected(u, map_id).slots[i].status =
                            IF m.slots[i].status = READY THEN NOT_READY
                            ELSE m.slots[i].status

----------------------------------------------------------------------------
(* The end of a round *)

\* the packets op that the handler's result s has added to the queue of v
Added(s, v, op) ==
    {n \in (Len(sess[v].queue) + 1)..Len(s.sess[v].queue) : s.sess[v].queue[n].op = op}

\* what match_complete leaves of the match of its sender u, and in the
\* queues
Completed(u) ==
    LET k == sess[u].match
        s == api_match_complete(St, u)
        marked == [mtch[k].slots EXCEPT ![get_slot_id(mtch[k], u)].status = COMPLETE]
        idle == {marked[i].user : i \in {j \in SlotIdx : /\ HasUser(marked[j].status)
                                                         /\ marked[j].status # COMPLETE}}
    IN  IF \E i \in SlotIdx : marked[i].status = PLAYING
        THEN /\ s.mtch[k] = [mtch[k] EXCEPT !.slots = marked]
             /\ \A v \in SessIds : s.sess[v].queue = sess[v].queue
        ELSE /\ ~s.mtch[k].in_progress
             /\ \A i \in SlotIdx :
                    s.mtch[k].slots[i] =
                        IF marked[i].status = COMPLETE
                        THEN [marked[i] EXCEPT !.status = NOT_READY] ELSE marked[i]
             /\ \A v \in Range(chan[mtch[k].chat].users) :
                    /\ v \notin idle => Cardinality(Added(s, v, "match_complete")) = 1
                    /\ v \in idle => Added(s, v, "match_complete") = {}
                    /\ \E n \in Added(s, v, "update_match") :
                        \A c \in Added(s, v, "match_complete") : c < n

\* C28: match-complete marks the sender's slot COMPLETE; while a slot is
\* still PLAYING nothing else changes; once none is, in_progress is false,
\* every COMPLETE slot is NOT_READY again, match_complete is enqueued to
\* every member of the match chat but the users of the occupied slots that
\* were not COMPLETE, and the match state is rebroadcast after it
C28_MatchComplete ==
    \A u \in SessIds :
        (CanRequest(u) /\ sess[u].match # Null /\ get_slot_id(mtch[sess[u].match], u) # -1)
            => Completed(u)

\* the same where the encoder accepts the match
C28_WhereEncoded ==
    \A u \in SessIds :
        ( /\ CanRequest(u) /\ sess[u].match # Null
          /\ get_slot_id(mtch[sess[u].match], u) # -1
          /\ can_serialise(mtch[sess[u].match]) )
            => Completed(u)

----------------------------------------------------------------------------
(* Sending to a channel *)

\* the packets Channel.send(msg, sender) adds to the queue of v
Delivered(c, msg, sender, v) ==
    LET s == Channel_send(St, c, msg, sender)
    IN  [n \in 1..(Len(s.sess[v].queue) - Len(sess[v].queue)) |->
            s.sess[v].queue[Len(sess[v].queue) + n]]

\* C30: Channel.send enqueues nothing when the sender lacks the privilege of
\* the channel; otherwise it enqueues one send_message packet to every
\* member of channel.users but the sender, and nothing to the sender
C30_ChannelSend ==
    \A c \in DOMAIN chan : \A sender \in SessIds : \A msg \in {"hi"} :
        Live(sender) =>
            \A v \in SessIds :
                IF has_permission(St, c, sender) /\ v \in Range(chan[c].users) /\ v # sender
                THEN /\ Len(Delivered(c, msg, sender, v)) = 1
                     /\ Delivered(c, msg, sender, v)[1].op = "send_message"
                ELSE Delivered(c, msg, sender, v) = <<>>

----------------------------------------------------------------------------
(* Teams *)

api_change_match_team(st, u) ==
    LET k == st.sess[u].match
        i == get_slot_id(st.mtch[k], u)
    IN  IF k = Null THEN st
        ELSE IF i = -1 THEN raise(st)
        ELSE enqueue_state(
                [st EXCEPT !.mtch[k].slots[i].team =
                    IF st.mtch[k].slots[i].team = BLUE THEN RED ELSE BLUE],
                k, FALSE)

ChangeMatchTeam(u) ==
    CanRequest(u) /\ Respond(api_change_match_team(St, u), u)

TeamTypes == {HEAD_TO_HEAD, TAG_COOP, TEAM_VS, TAG_TEAM_VS}

NextTeams ==
    \E u \in SessIds :
        \/ \E pm \in OwnPackets(u) : CreateMatch(u, pm)
        \/ CreateMatchResume(u)
        \/ \E i \in MatchIdx : JoinMatch(u, i, "")
        \/ JoinMatchResume(u)
        \/ \E team_type \in TeamTypes : ChangeMatchSettings(u, FALSE, 0, team_type)
        \/ ChangeMatchTeam(u)
        \/ Poll(u)

SpecTeams == InitSpectate /\ [][NextTeams]_vars

\* the team of the slot of u once its change-team request is served
Changed(u) ==
    LET k == sess[u].match
    IN  api_change_match_team(St, u).mtch[k].slots[get_slot_id(mtch[k], u)].team

\* C27: a change-team request turns BLUE into RED and RED into BLUE and
\* leaves a NEUTRAL slot alone, and in a HEAD_TO_HEAD or TAG_COOP match
\* every occupied slot is NEUTRAL whatever change-team requests were served
C27_TeamToggle ==
    /\ \A u \in SessIds :
        (CanRequest(u) /\ sess[u].match # Null /\ get_slot_id(mtch[sess[u].match], u) # -1)
            => LET team == mtch[sess[u].match].slots[get_slot_id(mtch[sess[u].match], u)].team
               IN  Changed(u) = CASE team = BLUE -> RED
                                  [] team = RED -> BLUE
                                  [] OTHER -> NEUTRAL
    /\ \A k \in MatchObjs : \A i \in SlotIdx :
        (mtch[k].team_type \in {HEAD_TO_HEAD, TAG_COOP} /\ HasUser(mtch[k].slots[i].status))
            => mtch[k].slots[i].team = NEUTRAL

\* the two halves, apart
C27_NeutralKept ==
    \A k \in MatchObjs : \A i \in SlotIdx :
        (mtch[k].team_type \in {HEAD_TO_HEAD, TAG_COOP} /\ HasUser(mtch[k].slots[i].status))
            => mtch[k].slots[i].team = NEUTRAL

----------------------------------------------------------------------------
(* Skipping *)

\* enqueue is called with the packet alone, one positional argument short:
\* the call raises TypeError before anything is sent, in both places
api_match_skip_request(st, u) ==
    LET k == st.sess[u].match
        i == get_slot_id(st.mtch[k], u)
    IN  IF k = Null THEN st
        ELSE IF i = -1 THEN raise(st)
        ELSE raise([st EXCEPT !.mtch[k].slots[i].skipped = TRUE])

MatchSkipRequest(u) ==
    CanRequest(u) /\ Respond(api_match_skip_request(St, u), u)

NextSkip ==
    \/ NextRound
    \/ \E u \in SessIds : MatchSkipRequest(u)

SpecSkip == InitSpectate /\ [][NextSkip]_vars

\* what a skip request of u leaves: the flag, the packets and the outcome
Skipped(u) ==
    LET k == sess[u].match
        s == api_match_skip_request(St, u)
        all == \A i \in SlotIdx :
                    s.mtch[k].slots[i].status = PLAYING => s.mtch[k].slots[i].skipped
    IN  /\ s.mtch[k].slots[get_slot_id(mtch[k], u)].skipped
        /\ \A v \in Range(chan[mtch[k].chat].users) :
            /\ Cardinality(Added(s, v, "match_player_skipped")) = 1
            /\ Cardinality(Added(s, v, "match_skip")) = IF all THEN 1 ELSE 0
        /\ ~s.raised

\* C29: a skip request of a seated player sets the skipped flag of the slot,
\* enqueues match_player_skipped to the match and, exactly when every
\* PLAYING slot is then skipped, match_skip; the handler completes normally
C29_SkipRequest ==
    \A u \in SessIds :
        (CanRequest(u) /\ sess[u].match # Null /\ get_slot_id(mtch[sess[u].match], u) # -1)
            => Skipped(u)

----------------------------------------------------------------------------
(* Score updates *)

CHO_MATCH_SCORE_UPDATE == 48

\* bytearray(b"0\x00\x00") + i32.write(len(data)) + data, with the byte at
\* index 11 replaced; the assignment raises IndexError on a packet of fewer
\* than 12 bytes and TypeError where get_slot_id returns None
api_update_match_score(st, u, data) ==
    LET k == st.sess[u].match
        packet == <<CHO_MATCH_SCORE_UPDATE, 0, 0>> \o write_int(Len(data), 4) \o data
    IN  IF k = Null THEN st
        ELSE IF Len(packet) < 12 \/ get_slot_id(st.mtch[k], u) = -1 THEN raise(st)
        ELSE match_enqueue(st, k,
                Pkt("bytes", [packet EXCEPT ![12] = get_slot_id(st.mtch[k], u)], 0, ""),
                FALSE, {})

UpdateMatchScore(u, data) ==
    CanRequest(u) /\ Respond(api_update_match_score(St, u, data), u)

\* score frames of the client, whole and cut short
ScorePayloads == {<<>>, <<9, 8, 7, 6>>, <<9, 8, 7, 6, 5>>, <<9, 8, 7, 6, 5, 4>>}

NextScore ==
    \E u \in SessIds :
        \/ \E pm \in OwnPackets(u) : CreateMatch(u, pm)
        \/ CreateMatchResume(u)
        \/ \E i \in MatchIdx : JoinMatch(u, i, "")
        \/ JoinMatchResume(u)
        \/ LeaveMatch(u)
        \/ JoinLobby(u)
        \/ ChannelJoin(u, LobbyName)
        \/ \E data \in ScorePayloads : UpdateMatchScore(u, data)
        \/ Poll(u)

SpecScore == InitSpectate /\ [][NextScore]_vars

\* what the score update of u with payload P adds to the queue of v
Relayed(u, P, v) ==
    LET s == api_update_match_score(St, u, P)
    IN  [n \in 1..(Len(s.sess[v].queue) - Len(sess[v].queue)) |->
            s.sess[v].queue[Len(sess[v].queue) + n]]

\* the score update of u, seated in slot k, reaches the rest of the match
\* chat as one packet: the header with the length of P, then P, with k at
\* index 11; the others get nothing
ScoreRelayed(u, P) ==
    LET m == mtch[sess[u].match]
        k == get_slot_id(m, u)
    IN  \A v \in SessIds \ {u} :
            IF v \in Range(chan[m.chat].users)
            THEN /\ Len(Relayed(u, P, v)) = 1
                 /\ Relayed(u, P, v)[1].op = "bytes"
                 /\ LET bytes == Relayed(u, P, v)[1].x
                    IN  /\ Len(bytes) = 7 + Len(P)
                        /\ Take(bytes, 3) = <<CHO_MATCH_SCORE_UPDATE, 0, 0>>
                        /\ read_int(Take(Drop(bytes, 3), 4), TRUE) = Len(P)
                        /\ Len(bytes) >= 12 /\ bytes[12] = k
                        /\ \A n \in 1..Len(P) : n # 5 => bytes[7 + n] = P[n]
            ELSE Relayed(u, P, v) = <<>>

\* C21: when a player seated in slot k posts a score update with payload P,
\* every other member of the match chat receives one packet, the header with
\* the length of P followed by P with k at index 11, and nothing is sent to
\* #lobby
C21_ScoreRelayed ==
    \A u \in SessIds : \A P \in ScorePayloads :
        (CanRequest(u) /\ sess[u].match # Null /\ get_slot_id(mtch[sess[u].match], u) # -1)
            => ScoreRelayed(u, P)

\* the same for the payloads that reach index 11
C21_WhereLongEnough ==
    \A u \in SessIds : \A P \in ScorePayloads :
        ( /\ CanRequest(u) /\ sess[u].match # Null
          /\ get_slot_id(mtch[sess[u].match], u) # -1
          /\ Len(P) >= 5 )
            => ScoreRelayed(u, P)

----------------------------------------------------------------------------
(* Friends *)

OSU_FRIEND_ADD == 73

OSU_FRIEND_REMOVE == 74

\* the register_packet decorators of the two friend handlers, in the order
\* of the file: both name OSU_FRIEND_ADD
Registrations ==
    <<[packet_id |-> OSU_FRIEND_ADD, handler |-> "add_friend"],
      [packet_id |-> OSU_FRIEND_ADD, handler |-> "remove_friend"]>>

\* app.state.PACKETS[packet_id] = wrapper: a later registration replaces an
\* earlier one of the same id; "none" where the table has no entry
registered(packet_id) ==
    LET at == {n \in 1..Len(Registrations) : Registrations[n].packet_id = packet_id}
    IN  IF at = {} THEN "none"
        ELSE Registrations[CHOOSE n \in at : \A o \in at : o <= n].handler

\* usecases.user.add_friend
add_friend(st, u, other_user) ==
    IF st.raised \/ st.sess[other_user].acct \in st.sess[u].friends THEN st
    ELSE [st EXCEPT !.sess[u].friends = @ \cup {st.sess[other_user].acct}]

\* usecases.user.remove_friend: the id is appended to the list once more,
\* which leaves the membership as it was
remove_friend(st, u, other_user) ==
    IF st.raised \/ st.sess[other_user].acct \notin st.sess[u].friends THEN st
    ELSE [st EXCEPT !.sess[u].friends = @ \cup {st.sess[other_user].acct}]

api_add_friend(st, u, target_id) ==
    IF target_id = 0 THEN raise(st)
    ELSE LET target == cache_fetch(st, target_id)
         IN  IF target = Null \/ target = BotSess THEN st
             ELSE IF st.sess[u].acct \in st.sess[target].blocked THEN st
             ELSE add_friend(update_activity(st, u), u, target)

api_remove_friend(st, u, target_id) ==
    IF target_id = 0 THEN raise(st)
    ELSE LET target == cache_fetch(st, target_id)
         IN  IF target = Null \/ target = BotSess THEN st
             ELSE remove_friend(update_activity(st, u), u, target)

\* a frame with a friend packet id and a target id: the handler the table
\* holds for the id, none for an id without entry
friend_packet(st, u, packet_id, target_id) ==
    CASE registered(packet_id) = "add_friend" -> api_add_friend(st, u, target_id)
      [] registered(packet_id) = "remove_friend" -> api_remove_friend(st, u, target_id)
      [] OTHER -> st

FriendPacket(u, packet_id, target_id) ==
    CanRequest(u) /\ Respond(friend_packet(St, u, packet_id, target_id), u)

NextFriends ==
    \/ \E u \in SessIds : \E target_id \in Accts \cup {0, OfflineId} :
        \E packet_id \in {OSU_FRIEND_ADD, OSU_FRIEND_REMOVE} :
            FriendPacket(u, packet_id, target_id)
    \/ \E u \in SessIds : Logout(u)
    \/ \E u \in SessIds : Poll(u)
    \/ Tick

SpecFriends == InitChat /\ [][NextFriends]_vars

\* C31: after an OSU_FRIEND_ADD packet naming a live target that is not the
\* bot, does not block the sender and is not yet a friend, the id of the
\* target is in the sender's friends; each packet id of the table invokes
\* the handler written for it
C31_FriendAdded ==
    /\ \A u \in SessIds : \A target_id \in Accts :
        LET target == cache_fetch(St, target_id)
        IN  ( /\ CanRequest(u) /\ target # Null /\ target # BotSess
              /\ sess[u].acct \notin sess[target].blocked
              /\ target_id \notin sess[u].friends )
                => target_id \in friend_packet(St, u, OSU_FRIEND_ADD, target_id).sess[u].friends
    /\ registered(OSU_FRIEND_ADD) = "add_friend"
    /\ registered(OSU_FRIEND_REMOVE) = "remove_friend"

----------------------------------------------------------------------------
(* The spectator channel of a host *)

\* C32: #spec_<h.id> is in sessions.channels exactly while the host h has a
\* spectator: made, with the host joined, when the first spectator starts,
\* removed from the registry when the last one stops, and made again, with
\* the host a member, for each later first spectator
C32_SpecChannelLifetime ==
    \A h \in Range(users) :
        LET c == get_by_name(St, SpecName(sess[h].acct))
        IN  /\ c # NoChan <=> sess[h].spectators # <<>>
            /\ sess[h].spectators # <<>> => h \in Range(chan[c].users)

----------------------------------------------------------------------------
(* Spectate frames *)

\* the wrapper reads the ReplayFrameBundle first: with a frame count above 0
\* it calls ReplayFrame.read() without the packet (TypeError). The handler
\* returns for a user who spectates nobody; for the others it reads
\* packet_data.frames, which the structure (frame_bundle) does not have
api_spectate_frames(st, u, frame_count) ==
    IF frame_count > 0 THEN raise(st)
    ELSE IF st.sess[u].spectating = Null THEN st
    ELSE raise(st)

SpectateFrames(u, frame_count) ==
    CanRequest(u) /\ Respond(api_spectate_frames(St, u, frame_count), u)

FrameCounts == {0, 1}

NextReplay ==
    \/ NextSpectate
    \/ \E u \in SessIds : \E frame_count \in FrameCounts : SpectateFrames(u, frame_count)

SpecReplay == InitSpectate /\ [][NextReplay]_vars

\* C33: when a user who has spectators and spectates nobody posts spectate
\* frames, every member of the spectators list receives a spectate_frames
\* packet and the handler completes normally
C33_FramesRelayed ==
    \A u \in SessIds : \A frame_count \in FrameCounts :
        (CanRequest(u) /\ sess[u].spectators # <<>> /\ sess[u].spectating = Null)
            => /\ ~api_spectate_frames(St, u, frame_count).raised
               /\ \A v \in Range(sess[u].spectators) :
                    Added(api_spectate_frames(St, u, frame_count), v, "spectate_frames") # {}

----------------------------------------------------------------------------
(* The pub/sub consumer: user-privileges *)

\* handle_privileges_change up to its first await: the privileges are set
handle_privileges_change_mut(st, user, privileges) == st

handle_privileges_change(st, user, privileges) ==
    [st EXCEPT !.sess[user].priv = privileges]

\* which of handle_unrestriction and handle_restriction the handler awaits
\* for a session that held old_priv
awaited(st, user, old_priv) ==
    IF "RESTRICTED" \in old_priv /\ ~restricted(st, user) THEN "handle_unrestriction"
    ELSE IF "RESTRICTED" \notin old_priv /\ restricted(st, user) THEN "handle_restriction"
    ELSE "none"

\* the message is taken off the subscription; the handler runs up to the
\* leaderboard calls of handle_restriction / handle_unrestriction or, where
\* neither is called, to its end
PrivilegesChange(id, privileges) ==
    /\ req.pc = "none"
    /\ cache_fetch(St, id) # Null
    /\ LET user == cache_fetch(St, id)
           st == handle_privileges_change(St, user, privileges)
       IN  /\ Commit(st)
           /\ req' = [NoRequest EXCEPT !.pc = awaited(st, user, sess[user].priv), !.u = user]
    /\ UNCHANGED <<now, lock, task, pend, wire>>

\* after the leaderboard calls: logout(user)
HandleRestriction ==
    /\ req.pc \in {"handle_restriction", "handle_unrestriction"}
    /\ Commit(reclaim(logout(St, req.u), pend))
    /\ req' = NoRequest
    /\ UNCHANGED <<now, lock, task, pend, wire>>

PrivilegeValues == {{"NORMAL"}, {"NORMAL", "RESTRICTED"}, {"NORMAL", "SUPPORTER"}}

\* restricted sessions are served from RESTRICTED_PACKETS, which holds
\* neither of the spectating handlers
NextPrivileges ==
    \/ \E id \in PlayerAccts : \E privileges \in PrivilegeValues :
            PrivilegesChange(id, privileges)
    \/ HandleRestriction
    \/ \E u \in SessIds :
        \/ \E target_id \in PlayerAccts :
                ~restricted(St, u) /\ StartSpectating(u, target_id)
        \/ ~restricted(St, u) /\ StopSpectating(u)
        \/ Logout(u)
        \/ Poll(u)

SpecPrivileges == InitFrames /\ [][NextPrivileges]_vars

\* the handler run to its end on the state as it is
Handled(user, privileges) ==
    LET st == handle_privileges_change(St, user, privileges)
    IN  IF awaited(st, user, sess[user].priv) = "none" THEN st ELSE logout(st, user)

LoggedOut(st, user) == user \notin Range(st.users) /\ st.sess[user].token = 0

----------------------------------------------------------------------------
(* Rejected logins *)

\* login from its start to its answer, nothing running in between
Attempt(t, osu_version, adapters, verify_password, hw_matches) ==
    LET b == login_begin(St, task[t], osu_version, adapters)
    IN  IF b.body # "" THEN b ELSE login_auth(b.st, task[t], verify_password, hw_matches)

\* the answers to missing adapters, an unknown user, a wrong password, a
\* hardware collision and a tourney stream without permission
Rejections == {"user_id(-5)", "user_id(-1)", "user_id(-1) Please contact staff."}

\* C35: a login attempt that ends rejected (missing adapters, unknown user,
\* wrong password, hardware collision, tourney stream without permission)
\* leaves sessions.users and every existing session as they were
C35_RejectedLoginChangesNothing ==
    \A t \in Tasks :
        (task[t].pc = "waiting" /\ lock = Null /\ QueuesBounded)
            => \A osu_version, adapters, verify_password, hw_matches \in BOOLEAN :
                LET r == Attempt(t, osu_version, adapters, verify_password, hw_matches)
                IN  r.body \in Rejections => r.st.users = users /\ r.st.sess = sess

-----------------------------------------------------------------------------
(* Seats and sessions *)

\* C36: every user seated in a slot of a registered match no request is
\* still working on is a member of sessions.users whose match reference is
\* that match, and the host of such a match is a member of sessions.users
C36_SeatedUsersAreLive ==
    \A k \in MatchObjs : Settled(k) =>
        /\ \A n \in 0..NumSlots - 1 :
            LET v == mtch[k].slots[n].user
            IN  (v # Null /\ pend[v] = NoPend)
                    => v \in Range(users) /\ sess[v].match = k
        /\ \A v \in SessIds :
            (sess[v].acct = mtch[k].host_id /\ sess[v].match = k)
                => v \in Range(users)

-----------------------------------------------------------------------------
(* Rounds in progress *)

\* C37: a registered match that is in progress has at least one slot whose
\* status is PLAYING
C37_InProgressHasPlaying ==
    \A k \in MatchObjs :
        (Settled(k) /\ mtch[k].in_progress)
            => \E i \in SlotIdx : mtch[k].slots[i].status = PLAYING

-----------------------------------------------------------------------------
(* Loading a round *)

is_playing(slot) == slot.status = PLAYING /\ ~slot.loaded

api_match_load_complete(st, u) ==
    LET k == st.sess[u].match
        i == get_slot_id(st.mtch[k], u)
    IN  IF k = Null THEN st
        ELSE IF i = -1 THEN raise(st)
        ELSE LET s1 == [st EXCEPT !.mtch[k].slots[i].loaded = TRUE]
             IN  IF \E j \in SlotIdx : is_playing(s1.mtch[k].slots[j]) THEN s1
                 ELSE match_enqueue(s1, k, Pkt("match_all_players_loaded", 0, 0, ""),
                                    FALSE, {})

MatchLoadComplete(u) ==
    CanRequest(u) /\ Respond(api_match_load_complete(St, u), u)

NextLoad ==
    \/ NextSkip
    \/ \E u \in SessIds : MatchLoadComplete(u)

SpecLoad == InitSpectate /\ [][NextLoad]_vars

\* C38: a round starts with no loaded and no skipped flag in any slot of
\* the match, so that the flags the load-complete and skip handlers count
\* in a round were all set since that round's start
C38_FlagsOfThisRound ==
    [][\A k \in MatchObjs :
        (~mtch[k].in_progress /\ mtch'[k].in_progress)
            => \A i \in SlotIdx :
                ~mtch'[k].slots[i].loaded /\ ~mtch'[k].slots[i].skipped]_vars

-----------------------------------------------------------------------------
(* Seats and the match chat *)

\* C39: every member of sessions.users seated in a slot of a registered
\* match no request is still working on is a member of the chat channel of
\* that match
C39_SeatedUsersInMatchChat ==
    \A k \in MatchObjs : Settled(k) =>
        \A i \in SlotIdx :
            LET v == mtch[k].slots[i].user
            IN  (v # Null /\ v \in Range(users) /\ pend[v] = NoPend)
                    => v \in Range(chan[mtch[k].chat].users)

-----------------------------------------------------------------------------
(* After the logout *)

\* C40: no step adds a session that is not in sessions.users, before the
\* step and after it, to the users of a channel, to a slot of a match or to
\* the spectators of a host
C40_NothingJoinedAfterLogout ==
    [][\A u \in SessIds :
        (u \notin Range(users) /\ u \notin Range(users'))
            => /\ \A c \in ChanIds :
                    u \in Range(chan'[c].users) => u \in Range(chan[c].users)
               /\ \A k \in MatchObjs : \A i \in SlotIdx :
                    mtch'[k].slots[i].user = u => mtch[k].slots[i].user = u
               /\ \A h \in SessIds :
                    u \in Range(sess'[h].spectators) => u \in Range(sess[h].spectators)]_vars

====
